---------------------------- MODULE Spec2Model ----------------------------
(***************************************************************************)
(* Model of scripts/kicad_sch_helpers.py: the grid/coordinate utilities    *)
(* (snap, pin_transform, pin_abs), the text-editing utilities (find_block, *)
(* remove_block_with_whitespace, remove_by_uuid, replace_lib_id,           *)
(* fix_annotation_suffixes), the symbol library (SymbolLibrary._parse and  *)
(* get, SymbolDef.get_pin and get_pin_by_number), the SchematicBuilder,    *)
(* run_erc and validate_and_fix_loop.                                      *)
(*                                                                         *)
(* Texts are sequences of one-character strings.  Positions are Python's   *)
(* 0-based indices; At and Slice translate them to TLA+'s 1-based          *)
(* sequences.  Coordinates are integers in hundredths of a millimetre, so  *)
(* that the grid constant 1.27 is the integer 127.                         *)
(***************************************************************************)
EXTENDS Integers, Sequences, FiniteSets, TLC

(***************************************************************************)
(* Bounds of the model.                                                    *)
(***************************************************************************)
\* longest text handed to find_block
MaxScanLen == 7
\* most items (blocks, line text, whitespace) in a document that is edited
MaxItems == 4
\* most items in a document whose lib_id is replaced
MaxLibItems == 4
\* largest |coordinate| handed to snap, in hundredths of a millimetre
MaxCoord == 400
\* most items (instance references, Reference properties) in a document
\* that is annotated
MaxRefItems == 3
\* most top-level items in a symbol library document
MaxDefs == 2
\* most calls in a session with a SchematicBuilder
MaxCalls == 3
\* most violations in a validator report
MaxViolations == 2
\* largest max_iterations validate_and_fix_loop is called with
MaxIterations == 3

(***************************************************************************)
(* Characters.                                                             *)
(***************************************************************************)
LP == "("
RP == ")"
QT == "\""
BS == "\\"
NL == "\n"
TAB == "\t"
SP == " "

(***************************************************************************)
(* Python str operations on texts.                                         *)
(***************************************************************************)
\* content[i]
At(s, i) == s[i + 1]

\* content[a:b] for 0 <= a, b <= len(content)
Slice(s, a, b) == SubSeq(s, a + 1, b)

\* content[i:i+len(pat)] == pat
MatchAt(s, pat, i) ==
    /\ i >= 0
    /\ i + Len(pat) <= Len(s)
    /\ SubSeq(s, i + 1, i + Len(pat)) = pat

\* content.find(pat): the lowest index of an occurrence, or -1
Find(s, pat) ==
    LET hits == {i \in 0..(Len(s) - Len(pat)) : MatchAt(s, pat, i)}
    IN  IF hits = {} THEN -1
        ELSE CHOOSE i \in hits : \A j \in hits : i <= j

\* content.rfind(pat, lo, hi): the highest index of an occurrence inside
\* content[lo:hi], or -1
RFind(s, pat, lo, hi) ==
    LET hits == {i \in lo..(hi - Len(pat)) : MatchAt(s, pat, i)}
    IN  IF hits = {} THEN -1
        ELSE CHOOSE i \in hits : \A j \in hits : i >= j

\* pat in content
Contains(s, pat) == Find(s, pat) # -1

\* content.count(pat): non-overlapping occurrences, scanned left to right
RECURSIVE CountFrom(_, _, _)
CountFrom(s, pat, i) ==
    IF i + Len(pat) > Len(s) THEN 0
    ELSE IF MatchAt(s, pat, i) THEN 1 + CountFrom(s, pat, i + Len(pat))
    ELSE CountFrom(s, pat, i + 1)

Count(s, pat) == CountFrom(s, pat, 0)

\* content.replace(old, new): every non-overlapping occurrence, left to right
RECURSIVE ReplaceFrom(_, _, _, _)
ReplaceFrom(s, old, new, i) ==
    IF i >= Len(s) THEN <<>>
    ELSE IF MatchAt(s, old, i) THEN new \o ReplaceFrom(s, old, new, i + Len(old))
    ELSE <<At(s, i)>> \o ReplaceFrom(s, old, new, i + 1)

Replace(s, old, new) == ReplaceFrom(s, old, new, 0)

\* the concatenation of a sequence of texts
RECURSIVE Flatten(_)
Flatten(ss) == IF ss = <<>> THEN <<>> ELSE Head(ss) \o Flatten(Tail(ss))

\* all sequences over S of length at most n
SeqsUpTo(S, n) == UNION {[1..k -> S] : k \in 0..n}

(***************************************************************************)
(* find_block                                                              *)
(***************************************************************************)
\* The while loop of find_block from index i on: the end position (the index
\* after the closing parenthesis), or -1 when the loop runs off the text.
RECURSIVE find_block_loop(_, _, _, _)
find_block_loop(content, i, depth, in_string) ==
    IF i >= Len(content) THEN -1
    ELSE LET c == At(content, i) IN
         IF c = QT /\ (i = 0 \/ At(content, i - 1) # BS)
         THEN find_block_loop(content, i + 1, depth, ~in_string)
         ELSE IF ~in_string /\ c = LP
         THEN find_block_loop(content, i + 1, depth + 1, in_string)
         ELSE IF ~in_string /\ c = RP
         THEN IF depth - 1 = 0 THEN i + 1
              ELSE find_block_loop(content, i + 1, depth - 1, in_string)
         ELSE find_block_loop(content, i + 1, depth, in_string)

\* find_block(content, start_pos) for 0 <= start_pos <= len(content): the
\* returned pair, or the error raised (both ValueError in the code; the
\* names are the specification's)
find_block(content, start_pos) ==
    IF start_pos >= Len(content)
    THEN [status |-> "IndexError", text |-> <<>>, end_pos |-> -1]
    ELSE IF At(content, start_pos) # LP
    THEN [status |-> "NotABlockStart", text |-> <<>>, end_pos |-> -1]
    ELSE LET e == find_block_loop(content, start_pos, 0, FALSE) IN
         IF e = -1
         THEN [status |-> "UnbalancedBlock", text |-> <<>>, end_pos |-> -1]
         ELSE [status |-> "ok", text |-> Slice(content, start_pos, e), end_pos |-> e]

\* in_string when the while loop of find_block, started at start_pos, is at
\* index i: toggled by each quote at an index j < i that stands at index 0
\* or after a character other than a backslash
RECURSIVE in_string(_, _, _)
in_string(content, start_pos, i) ==
    IF i <= start_pos THEN FALSE
    ELSE LET before == in_string(content, start_pos, i - 1)
             c == At(content, i - 1)
         IN  IF c = QT /\ (i - 1 = 0 \/ At(content, i - 2) # BS)
             THEN ~before
             ELSE before

(***************************************************************************)
(* remove_block_with_whitespace                                            *)
(***************************************************************************)
\* while start > 0 and content[start-1] in ' \t': start -= 1
RECURSIVE SkipBlanksBack(_, _)
SkipBlanksBack(content, start) ==
    IF start > 0 /\ At(content, start - 1) \in {SP, TAB}
    THEN SkipBlanksBack(content, start - 1)
    ELSE start

\* while end < len(content) and content[end] in ' \t': end += 1
RECURSIVE SkipBlanksFwd(_, _)
SkipBlanksFwd(content, end) ==
    IF end < Len(content) /\ At(content, end) \in {SP, TAB}
    THEN SkipBlanksFwd(content, end + 1)
    ELSE end

\* RemovalStart taking every newline and blank before the block
RECURSIVE RemovalStart_AllWhitespace(_, _)
RemovalStart_AllWhitespace(content, block_start) ==
    IF block_start > 0 /\ At(content, block_start - 1) \in {SP, TAB, NL}
    THEN RemovalStart_AllWhitespace(content, block_start - 1)
    ELSE block_start

\* the first index of the span remove_block_with_whitespace deletes
RemovalStart(content, block_start) ==
    LET start == SkipBlanksBack(content, block_start) IN
    IF start > 0 /\ At(content, start - 1) = NL THEN start - 1 ELSE start

\* the index after the span remove_block_with_whitespace deletes
RemovalEnd(content, block_end) ==
    LET end == SkipBlanksFwd(content, block_end) IN
    IF end < Len(content) /\ At(content, end) = NL THEN end + 1 ELSE end

remove_block_with_whitespace(content, block_start, block_end) ==
    Slice(content, 0, RemovalStart(content, block_start))
        \o Slice(content, RemovalEnd(content, block_end), Len(content))

(***************************************************************************)
(* remove_by_uuid                                                          *)
(***************************************************************************)
\* f'(uuid "{uuid}")'
UuidMarker(uuid) == <<"(", "u", "u", "i", "d", " ", "\"">> \o uuid \o <<"\"", ")">>

\* f'({element_type}'
SearchTerm(element_type) == <<"(">> \o element_type

\* content.rfind(search_term, 0, pos): where the block to delete starts
ParentStart(content, element_type, pos) ==
    RFind(content, SearchTerm(element_type), 0, pos)

\* the containment test of remove_by_uuid: uuid not in block_text
KeyInBlock(uuid, block_text) == Contains(block_text, uuid)

\* remove_by_uuid(content, uuid, element_type): the edited text, or the error
\* raised (all ValueError in the code; the names are the specification's).
\* block_start, block_end: the block located, when one was.
remove_by_uuid(content, uuid, element_type) ==
    LET pos == Find(content, UuidMarker(uuid))
        block_start == ParentStart(content, element_type, pos)
        blk == find_block(content, block_start)
        fail(e) == [status |-> e, text |-> <<>>, block_start |-> -1, block_end |-> -1]
    IN  IF pos = -1 THEN fail("KeyNotFound")
        ELSE IF block_start = -1 THEN fail("ParentBlockNotFound")
        ELSE IF blk.status # "ok" THEN fail(blk.status)
        ELSE IF ~KeyInBlock(uuid, blk.text) THEN fail("KeyNotInBlock")
        ELSE [status |-> "ok",
              text |-> remove_block_with_whitespace(content, block_start, blk.end_pos),
              block_start |-> block_start, block_end |-> blk.end_pos]

(***************************************************************************)
(* replace_lib_id                                                          *)
(***************************************************************************)
\* f'(lib_id "{id}")'
LibIdAttr(id) ==
    <<"(", "l", "i", "b", "_", "i", "d", " ", "\"">> \o id \o <<"\"", ")">>

\* f'(symbol "{id}"'
SymbolKey(id) == <<"(", "s", "y", "m", "b", "o", "l", " ", "\"">> \o id \o <<"\"">>

\* replace_lib_id(content, old_id, new_id): (modified_content, count)
replace_lib_id(content0, old_id, new_id) ==
    LET c == Count(content0, LibIdAttr(old_id))
        content1 == Replace(content0, LibIdAttr(old_id), LibIdAttr(new_id))
        old_sym == SymbolKey(old_id)
    IN  IF Contains(content1, old_sym)
        THEN [status |-> "ok",
              text |-> Replace(content1, old_sym, SymbolKey(new_id)),
              count |-> c + 1]
        ELSE [status |-> "ok", text |-> content1, count |-> c]

(***************************************************************************)
(* Grid and coordinate utilities, in hundredths of a millimetre.           *)
(***************************************************************************)
\* GRID = 1.27
GRID == 127

\* PyRound truncating towards minus infinity instead of rounding
PyRound_Floor(n, d) == n \div d

\* Python's round(n / d) for d > 0: the nearest integer, a tie going to the
\* even one
PyRound(n, d) ==
    LET q == n \div d
        r == n % d
    IN  IF 2 * r < d THEN q
        ELSE IF 2 * r > d THEN q + 1
        ELSE IF q % 2 = 0 THEN q ELSE q + 1

\* snap that returns the coordinate as given
snap_NoGrid(v) == v

\* round(v / GRID) * GRID
snap(v) == PyRound(v, GRID) * GRID

\* pin_transform with the rows of 90 and 270 exchanged
pin_transform_Swapped(pin_x, pin_y, rotation) ==
    IF rotation = 0 THEN [status |-> "ok", x |-> pin_x, y |-> -pin_y]
    ELSE IF rotation = 270 THEN [status |-> "ok", x |-> pin_y, y |-> pin_x]
    ELSE IF rotation = 180 THEN [status |-> "ok", x |-> -pin_x, y |-> pin_y]
    ELSE IF rotation = 90 THEN [status |-> "ok", x |-> -pin_y, y |-> -pin_x]
    ELSE [status |-> "InvalidRotation", x |-> 0, y |-> 0]

\* pin_transform(pin_x, pin_y, rotation): (dx, dy), or the ValueError raised
\* for a rotation that is no key of the table
pin_transform(pin_x, pin_y, rotation) ==
    IF rotation = 0 THEN [status |-> "ok", x |-> pin_x, y |-> -pin_y]
    ELSE IF rotation = 90 THEN [status |-> "ok", x |-> pin_y, y |-> pin_x]
    ELSE IF rotation = 180 THEN [status |-> "ok", x |-> -pin_x, y |-> pin_y]
    ELSE IF rotation = 270 THEN [status |-> "ok", x |-> -pin_y, y |-> -pin_x]
    ELSE [status |-> "InvalidRotation", x |-> 0, y |-> 0]

\* pin_abs(sx, sy, px, py, rotation, mirror_y): (abs_x, abs_y), or the error
\* pin_transform raised
pin_abs(sx, sy, px, py, rotation, mirror_y) ==
    LET px1 == IF mirror_y THEN -px ELSE px
        d == pin_transform(px1, py, rotation)
    IN  IF d.status # "ok" THEN d
        ELSE [status |-> "ok", x |-> snap(sx + d.x), y |-> snap(sy + d.y)]

(***************************************************************************)
(* fix_annotation_suffixes                                                 *)
(***************************************************************************)
\* ord(c) for the characters reference designators are written with here
Ord(c) ==
    CASE c = "#" -> 35 [] c = "1" -> 49 [] c = "A" -> 65 [] c = "B" -> 66
      [] c = "C" -> 67 [] c = "J" -> 74 [] c = "N" -> 78 [] c = "P" -> 80
      [] c = "R" -> 82 [] c = "W" -> 87 [] c = "X" -> 88 [] c = "_" -> 95

\* c.isdigit()
IsDigit(c) == c \in {"0", "1", "2", "3", "4", "5", "6", "7", "8", "9"}

\* a < b on Python strings
RECURSIVE StrLess(_, _)
StrLess(a, b) ==
    IF b = <<>> THEN FALSE
    ELSE IF a = <<>> THEN TRUE
    ELSE IF Head(a) # Head(b) THEN Ord(Head(a)) < Ord(Head(b))
    ELSE StrLess(Tail(a), Tail(b))

\* sorted(S) for a set of strings
RECURSIVE Sorted(_)
Sorted(S) ==
    IF S = {} THEN <<>>
    ELSE LET m == CHOOSE a \in S : \A b \in S \ {a} : StrLess(a, b)
         IN  <<m>> \o Sorted(S \ {m})

\* (reference "
RefOpen == <<"(", "r", "e", "f", "e", "r", "e", "n", "c", "e", " ", "\"">>

\* "Reference" "
PropOpen ==
    <<"\"", "R", "e", "f", "e", "r", "e", "n", "c", "e", "\"", " ", "\"">>

\* f'(reference "{ref}")'
RefInst(ref) == RefOpen \o ref \o <<"\"", ")">>

\* f'"Reference" "{ref}"'
RefProp(ref) == PropOpen \o ref \o <<"\"">>

\* the index of the first quote at or after i, or len(s)
RECURSIVE NextQuote(_, _)
NextQuote(s, i) ==
    IF i >= Len(s) THEN Len(s)
    ELSE IF At(s, i) = QT THEN i
    ELSE NextQuote(s, i + 1)

\* re.findall(r'\(reference "([^"]+)"\)', content) from index i on: the
\* captured groups of the non-overlapping matches, left to right
RECURSIVE FindAllRefs(_, _)
FindAllRefs(s, i) ==
    IF i >= Len(s) THEN <<>>
    ELSE IF ~MatchAt(s, RefOpen, i) THEN FindAllRefs(s, i + 1)
    ELSE LET a == i + Len(RefOpen)
             q == NextQuote(s, a)
         IN  IF q > a /\ MatchAt(s, <<QT, RP>>, q)
             THEN <<Slice(s, a, q)>> \o FindAllRefs(s, q + 2)
             ELSE FindAllRefs(s, i + 1)

\* visible_refs = [r for r in refs if not r.startswith('#')]
visible_refs(refs) == SelectSeq(refs, LAMBDA r : Head(r) # "#")

\* the list in document order, duplicates kept
no_digit_DocumentOrder(content) ==
    SelectSeq(visible_refs(FindAllRefs(content, 0)),
              LAMBDA r : ~IsDigit(r[Len(r)]))

\* no_digit = sorted(set(r for r in visible_refs if r and not r[-1].isdigit()))
no_digit(content) ==
    LET v == visible_refs(FindAllRefs(content, 0))
    IN  Sorted({v[k] : k \in {n \in 1..Len(v) : ~IsDigit(v[n][Len(v[n])])}})

\* the for loop over no_digit[k..]: both replacements for each ref in turn
RECURSIVE fix_loop(_, _, _)
fix_loop(content, refs, k) ==
    IF k > Len(refs) THEN content
    ELSE LET ref == refs[k]
             new_ref == ref \o <<"1">>
             c1 == Replace(content, RefProp(ref), RefProp(new_ref))
             c2 == Replace(c1, RefInst(ref), RefInst(new_ref))
         IN  fix_loop(c2, refs, k + 1)

fix_annotation_suffixes(content) ==
    LET refs == no_digit(content)
    IN  [status |-> "ok", text |-> fix_loop(content, refs, 1), fixed |-> refs]

(***************************************************************************)
(* Regular expressions of SymbolLibrary._parse.  Each piece maps an index  *)
(* to the index after what it matched, or -1.  A greedy class is never     *)
(* followed by a piece that could start with one of its characters, so no  *)
(* piece but the two lazy ones has to give characters back.                *)
(***************************************************************************)
LowerChars ==
    {"a", "b", "c", "d", "e", "f", "g", "h", "i", "j", "k", "l", "m", "n",
     "o", "p", "q", "r", "s", "t", "u", "v", "w", "x", "y", "z"}
UpperChars ==
    {"A", "B", "C", "D", "E", "F", "G", "H", "I", "J", "K", "L", "M", "N",
     "O", "P", "Q", "R", "S", "T", "U", "V", "W", "X", "Y", "Z"}
\* \d
DigitChars == {"0", "1", "2", "3", "4", "5", "6", "7", "8", "9"}
\* \w
WordChars == LowerChars \cup UpperChars \cup DigitChars \cup {"_"}
\* \s
SpaceChars == {" ", "\t", "\n", "\r"}
\* [-\d.]
NumChars == DigitChars \cup {"-", "."}

\* the index after the longest run of characters of S that starts at i
RECURSIVE SpanIn(_, _, _)
SpanIn(s, i, S) ==
    IF i < Len(s) /\ At(s, i) \in S THEN SpanIn(s, i + 1, S) ELSE i

\* a literal
Lit(s, pat, i) == IF i >= 0 /\ MatchAt(s, pat, i) THEN i + Len(pat) ELSE -1

\* [S]+
Plus(s, S, i) ==
    IF i < 0 THEN -1
    ELSE LET j == SpanIn(s, i, S) IN IF j > i THEN j ELSE -1

\* "[^"]*" : the index of the closing quote of the string opened at i - 1
Quoted(s, i) ==
    IF i < 0 THEN -1
    ELSE LET q == NextQuote(s, i) IN IF q < Len(s) THEN q ELSE -1

\* line.strip()
strip(line) ==
    LET keep == {k \in 1..Len(line) : line[k] \notin SpaceChars}
    IN  IF keep = {} THEN <<>>
        ELSE SubSeq(line, CHOOSE a \in keep : \A b \in keep : a <= b,
                          CHOOSE a \in keep : \A b \in keep : a >= b)

\* content.split('\n')
RECURSIVE split_lines(_)
split_lines(s) ==
    LET n == Find(s, <<NL>>)
    IN  IF n = -1 THEN <<s>>
        ELSE <<Slice(s, 0, n)>> \o split_lines(Slice(s, n + 1, Len(s)))

\* '\n'.join(lines[a..b])
RECURSIVE join_lines(_, _, _)
join_lines(lines, a, b) ==
    IF a > b THEN <<>>
    ELSE IF a = b THEN lines[a]
    ELSE lines[a] \o <<NL>> \o join_lines(lines, a + 1, b)

\* re.match(r'^\(symbol\s+"([^"]+)"', line): the name, or <<>> for no match
symbol_header(line) ==
    LET a == Lit(line, <<QT>>, Plus(line, SpaceChars, Lit(line, <<"(", "s", "y", "m", "b", "o", "l">>, 0)))
        q == Quoted(line, a)
    IN  IF a >= 0 /\ q > a THEN Slice(line, a, q) ELSE <<>>

\* a test that takes no name for a sub-symbol's
is_sub_symbol_Never(name) == FALSE

\* re.search(r'_\d+_\d+$', name)
is_sub_symbol(name) ==
    \E a \in 1..Len(name) : \E b \in (a + 2)..(Len(name) - 1) :
        /\ name[a] = "_"
        /\ name[b] = "_"
        /\ \A k \in (a + 1)..(b - 1) : name[k] \in DigitChars
        /\ \A k \in (b + 1)..Len(name) : name[k] \in DigitChars

\* int(text) for a text of digits
RECURSIVE int_of(_)
int_of(t) ==
    IF t = <<>> THEN 0
    ELSE 10 * int_of(SubSeq(t, 1, Len(t) - 1))
           + (CHOOSE d \in 0..9 : <<"0", "1", "2", "3", "4", "5", "6", "7", "8", "9">>[d + 1] = t[Len(t)])

\* float(text) in hundredths, for a numeral with an optional sign and at most
\* two decimals (every numeral of the documents below)
float_of(t) ==
    LET neg == t[1] = "-"
        u == IF neg THEN Tail(t) ELSE t
        dot == Find(u, <<".">>)
        whole == IF dot = -1 THEN u ELSE Slice(u, 0, dot)
        frac == IF dot = -1 THEN <<>> ELSE Slice(u, dot + 1, Len(u))
        cents == IF Len(frac) = 0 THEN 0
                 ELSE IF Len(frac) = 1 THEN 10 * int_of(frac)
                 ELSE int_of(frac)
        v == 100 * int_of(whole) + cents
    IN  IF neg THEN 0 - v ELSE v

\* \)\s+\(number\s+"([^"]*)".*?\)\) tried at k: the indices of the string
\* and of the end of the match, or end = -1
number_tail(s, k) ==
    LET a == Lit(s, <<QT>>, Plus(s, SpaceChars, Lit(s, <<"(", "n", "u", "m", "b", "e", "r">>,
                 Plus(s, SpaceChars, Lit(s, <<RP>>, k)))))
        q == Quoted(s, a)
        ends == IF q < 0 THEN {}
                ELSE {e \in (q + 1)..(Len(s) - 2) : MatchAt(s, <<RP, RP>>, e)}
    IN  [a |-> a, q |-> q,
         end |-> IF ends = {} THEN -1
                 ELSE (CHOOSE e \in ends : \A f \in ends : e <= f) + 2]

\* pin_pattern.match(block, i): the PinDef and the end of the match, or
\* end = -1
pin_match(s, i) ==
    LET t1 == Plus(s, SpaceChars, Lit(s, <<"(", "p", "i", "n">>, i))
        t2 == Plus(s, WordChars, t1)
        a1 == Plus(s, SpaceChars, Lit(s, <<"(", "a", "t">>,
                   Plus(s, SpaceChars, Plus(s, WordChars, Plus(s, SpaceChars, t2)))))
        a2 == Plus(s, NumChars, a1)
        b1 == Plus(s, SpaceChars, a2)
        b2 == Plus(s, NumChars, b1)
        c1 == Plus(s, SpaceChars, b2)
        c2 == Plus(s, DigitChars, c1)
        l1 == Plus(s, SpaceChars, Lit(s, <<"(", "l", "e", "n", "g", "t", "h">>,
                   Plus(s, SpaceChars, Lit(s, <<RP>>, c2))))
        l2 == Plus(s, NumChars, l1)
        n1 == Lit(s, <<QT>>, Plus(s, SpaceChars, Lit(s, <<"(", "n", "a", "m", "e">>,
                   Plus(s, SpaceChars, Lit(s, <<RP>>, l2)))))
        n2 == Quoted(s, n1)
        ks == IF n2 < 0 THEN {}
              ELSE {k \in (n2 + 1)..Len(s) : number_tail(s, k).end >= 0}
    IN  IF ks = {} THEN [end |-> -1]
        ELSE LET nt == number_tail(s, CHOOSE k \in ks : \A m \in ks : k <= m)
             IN  [end |-> nt.end,
                  pin |-> [name |-> Slice(s, n1, n2),
                           number |-> Slice(s, nt.a, nt.q),
                           x |-> float_of(Slice(s, a1, a2)),
                           y |-> float_of(Slice(s, b1, b2)),
                           angle |-> int_of(Slice(s, c1, c2)),
                           length |-> float_of(Slice(s, l1, l2)),
                           pin_type |-> Slice(s, t1, t2)]]

\* the index of the first opening parenthesis at or after i, or len(s)
next_paren(s, i) ==
    LET ps == {k \in i..(Len(s) - 1) : At(s, k) = LP}
    IN  IF ps = {} THEN Len(s) ELSE CHOOSE k \in ps : \A m \in ps : k <= m

\* [PinDef(...) for pm in pin_pattern.finditer(block)] from index i on: the
\* pattern can only match where an opening parenthesis stands
RECURSIVE pin_finditer(_, _)
pin_finditer(block, i) ==
    LET p == next_paren(block, i)
        pm == pin_match(block, p)
    IN  IF p >= Len(block) THEN <<>>
        ELSE IF pm.end < 0 THEN pin_finditer(block, p + 1)
        ELSE <<pm.pin>> \o pin_finditer(block, pm.end)

(***************************************************************************)
(* SymbolDef and SymbolLibrary                                             *)
(***************************************************************************)
\* Python's None
None == [none |-> TRUE]

\* SymbolLibrary.__init__: self.symbols = {}
EmptyDict == <<>>

\* d[key] = value
DictPut(d, key, value) ==
    [k \in DOMAIN d \cup {key} |-> IF k = key THEN value ELSE d[k]]

\* d.get(key)
DictGet(d, key) == IF key \in DOMAIN d THEN d[key] ELSE None

\* SymbolDef.get_pin(name)
get_pin(sym_def, name) ==
    LET hits == {k \in 1..Len(sym_def.pins) : sym_def.pins[k].name = name}
    IN  IF hits = {} THEN None
        ELSE sym_def.pins[CHOOSE k \in hits : \A m \in hits : k <= m]

\* a lookup that takes any number for the first pin's
get_pin_by_number_First(sym_def, number) == sym_def.pins[1]

\* SymbolDef.get_pin_by_number(number)
get_pin_by_number(sym_def, number) ==
    LET hits == {k \in 1..Len(sym_def.pins) : sym_def.pins[k].number = number}
    IN  IF hits = {} THEN None
        ELSE sym_def.pins[CHOOSE k \in hits : \A m \in hits : k <= m]

\* the inner while loop of _parse: the index of the first line after the block
RECURSIVE block_end(_, _, _)
block_end(lines, j, depth) ==
    IF j < Len(lines) /\ depth > 0
    THEN LET l == strip(lines[j + 1])
         IN  block_end(lines, j + 1, depth + Count(l, <<LP>>) - Count(l, <<RP>>))
    ELSE j

\* if pins: self.symbols[sym_name] = SymbolDef(name=sym_name, pins=pins)
register(syms, sym_name, pins) ==
    IF pins # <<>>
    THEN DictPut(syms, sym_name, [name |-> sym_name, pins |-> pins])
    ELSE syms

\* the outer while loop of _parse from line i on
RECURSIVE parse_loop(_, _, _)
parse_loop(lines, i, syms) ==
    IF i >= Len(lines) THEN syms
    ELSE LET line == strip(lines[i + 1])
             sym_name == symbol_header(line)
         IN  IF sym_name # <<>> /\ ~is_sub_symbol(sym_name)
             THEN LET depth == Count(line, <<LP>>) - Count(line, <<RP>>)
                      j == block_end(lines, i + 1, depth)
                      stripped == [k \in 1..Len(lines) |-> strip(lines[k])]
                      block == join_lines(stripped, i + 1, j)
                  IN  parse_loop(lines, j, register(syms, sym_name, pin_finditer(block, 0)))
             ELSE parse_loop(lines, i + 1, syms)

\* SymbolLibrary._parse(content)
parse(syms, content) == parse_loop(split_lines(content), 0, syms)

\* name.split(':', 1)[1]
after_colon(name) == Slice(name, Find(name, <<":">>) + 1, Len(name))

\* SymbolLibrary.get(name)
get(syms, name) ==
    IF name \in DOMAIN syms THEN syms[name]
    ELSE IF Contains(name, <<":">>) /\ after_colon(name) \in DOMAIN syms
         THEN syms[after_colon(name)]
    ELSE None

(***************************************************************************)
(* SchematicBuilder.  The builder is a record of the fields __init__ sets, *)
(* with one more, uuids: uid() is modelled as a counter, so that the uuid  *)
(* of an element tells when it was created.  An element is the record of   *)
(* the values its template is filled with; "{x:.2f}" keeps the hundredths  *)
(* a coordinate is measured in.  The value, footprint and lcsc texts of a  *)
(* component are passed through to the template and are left out.          *)
(***************************************************************************)
\* SchematicBuilder(symbol_lib): root_uuid is the first uuid drawn
SchematicBuilder(symbol_lib) ==
    [symbol_lib |-> symbol_lib, root_uuid |-> 0, components |-> <<>>,
     placed |-> EmptyDict, wires |-> <<>>, labels |-> <<>>,
     no_connects |-> <<>>, text_notes |-> <<>>,
     pwr_sym_counter |-> 0, flg_counter |-> 0, uuids |-> 1]

\* place(lib_id, ref, value, x, y, rotation, mirror_y=mirror_y, unit=unit)
place(b, lib_id, ref, x0, y0, rotation, mirror_y, unit) ==
    LET x == snap(x0)
        y == snap(y0)
        u == b.uuids
        text == [kind |-> "symbol", lib_id |-> lib_id, at |-> <<x, y>>,
                 rotation |-> rotation, mirror_y |-> mirror_y, uuid |-> u,
                 reference |-> ref, unit |-> unit,
                 property_at |-> << <<x, y - 381>>, <<x, y + 381>>,
                                    <<x, y + 508>>, <<x, y + 635>> >>]
        comp == [lib_id |-> lib_id, ref |-> ref, x |-> x, y |-> y,
                 rotation |-> rotation, mirror_y |-> mirror_y, unit |-> unit,
                 uuid |-> u]
    IN  [b EXCEPT !.components = Append(@, text),
                  !.placed = DictPut(@, ref, comp),
                  !.uuids = u + 1]

\* label(name, x, y, angle)
label(b, name, x0, y0, angle) ==
    [b EXCEPT !.labels = Append(@, [kind |-> "label", name |-> name,
                                    at |-> <<snap(x0), snap(y0)>>,
                                    angle |-> angle, uuid |-> b.uuids]),
              !.uuids = @ + 1]

\* f"{n:03d}" for n < 1000
format_03d(n) ==
    LET digit(d) == <<"0", "1", "2", "3", "4", "5", "6", "7", "8", "9">>[d + 1]
    IN  <<digit((n \div 100) % 10), digit((n \div 10) % 10), digit(n % 10)>>

\* place_power(lib_id, value, x, y, rotation)
place_power(b, lib_id, x0, y0, rotation) ==
    LET x == snap(x0)
        y == snap(y0)
        n == b.pwr_sym_counter + 1
    IN  [b EXCEPT !.pwr_sym_counter = n,
                  !.components = Append(@,
                      [kind |-> "symbol", lib_id |-> lib_id, at |-> <<x, y>>,
                       rotation |-> rotation, mirror_y |-> FALSE,
                       uuid |-> b.uuids, reference |-> <<"#", "P", "W", "R">> \o format_03d(n),
                       unit |-> 1,
                       property_at |-> << <<x, y + 254>>, <<x, y + 381>>, <<x, y>> >>]),
                  !.uuids = @ + 1]

\* place_pwr_flag(x, y, net_name)
place_pwr_flag(b, x0, y0, net_name) ==
    LET x == snap(x0)
        y == snap(y0)
        n == b.flg_counter + 1
        flagged ==
            [b EXCEPT !.flg_counter = n,
                      !.components = Append(@,
                          [kind |-> "symbol",
                           lib_id |-> <<"p", "o", "w", "e", "r", ":", "P",
                                       "W", "R", "_", "F", "L", "A", "G">>,
                           at |-> <<x, y>>, rotation |-> 0, mirror_y |-> FALSE,
                           uuid |-> b.uuids, reference |-> <<"#", "F", "L", "G">> \o format_03d(n),
                           unit |-> 1,
                           property_at |-> << <<x, y + 254>>, <<x, y + 381>>, <<x, y>> >>]),
                      !.uuids = @ + 1]
    IN  label(flagged, net_name, x, y, 0)

\* a wire that keeps the wires of no length
wire_KeepZeroLength(b, x1, y1, x2, y2) ==
    [b EXCEPT !.wires = Append(@, [kind |-> "wire",
                                   pts |-> << <<snap(x1), snap(y1)>>,
                                              <<snap(x2), snap(y2)>> >>,
                                   uuid |-> b.uuids]),
              !.uuids = @ + 1]

\* wire(x1, y1, x2, y2)
wire(b, x1, y1, x2, y2) ==
    LET p == <<snap(x1), snap(y1)>>
        q == <<snap(x2), snap(y2)>>
    IN  IF p = q THEN b
        ELSE [b EXCEPT !.wires = Append(@, [kind |-> "wire", pts |-> <<p, q>>,
                                            uuid |-> b.uuids]),
                       !.uuids = @ + 1]

\* no_connect(x, y)
no_connect(b, x0, y0) ==
    [b EXCEPT !.no_connects = Append(@, [kind |-> "no_connect",
                                         at |-> <<snap(x0), snap(y0)>>,
                                         uuid |-> b.uuids]),
              !.uuids = @ + 1]

\* text_note(text, x, y)
text_note(b, text, x, y) ==
    [b EXCEPT !.text_notes = Append(@, [kind |-> "text", text |-> text,
                                        at |-> <<x, y>>, uuid |-> b.uuids]),
              !.uuids = @ + 1]

\* The lookups connect_pin and connect_pin_noconnect share: the pin, or
\* None when the component, the library, the symbol or the pin is missing.
lookup_pin(b, ref, pin_name, by_number) ==
    LET comp == DictGet(b.placed, ref)
        sym_def == get(b.symbol_lib, comp.lib_id)
    IN  IF comp = None \/ b.symbol_lib = None THEN None
        ELSE IF sym_def = None THEN None
        ELSE IF by_number THEN get_pin_by_number(sym_def, pin_name)
        ELSE get_pin(sym_def, pin_name)

\* connect_pin(ref, pin_name, net_label, wire_dx, wire_dy, label_angle,
\* by_number): the builder afterwards, or the error pin_abs raised
connect_pin(b, ref, pin_name, net_label, wire_dx, wire_dy, label_angle, by_number) ==
    LET comp == b.placed[ref]
        pin == lookup_pin(b, ref, pin_name, by_number)
        abs == pin_abs(comp.x, comp.y, pin.x, pin.y, comp.rotation, comp.mirror_y)
        end_x == snap(abs.x + wire_dx)
        end_y == snap(abs.y + wire_dy)
    IN  IF pin = None THEN [status |-> "ok", builder |-> b]
        ELSE IF abs.status # "ok" THEN [status |-> abs.status, builder |-> b]
        ELSE IF wire_dx # 0 \/ wire_dy # 0
             THEN [status |-> "ok",
                   builder |-> label(wire(b, abs.x, abs.y, end_x, end_y),
                                     net_label, end_x, end_y, label_angle)]
             ELSE [status |-> "ok",
                   builder |-> label(b, net_label, abs.x, abs.y, label_angle)]

\* a marker at the position of the component instead of the pin's
connect_pin_noconnect_AtComponent(b, ref, pin_name, by_number) ==
    IF lookup_pin(b, ref, pin_name, by_number) = None
    THEN [status |-> "ok", builder |-> b]
    ELSE [status |-> "ok", builder |-> no_connect(b, b.placed[ref].x, b.placed[ref].y)]

\* connect_pin_noconnect(ref, pin_name, by_number)
connect_pin_noconnect(b, ref, pin_name, by_number) ==
    LET comp == b.placed[ref]
        pin == lookup_pin(b, ref, pin_name, by_number)
        abs == pin_abs(comp.x, comp.y, pin.x, pin.y, comp.rotation, comp.mirror_y)
    IN  IF pin = None THEN [status |-> "ok", builder |-> b]
        ELSE IF abs.status # "ok" THEN [status |-> abs.status, builder |-> b]
        ELSE [status |-> "ok", builder |-> no_connect(b, abs.x, abs.y)]

\* the sections of a document in the order their elements were created
all_items_CreationOrder(b) ==
    LET items == b.components \o b.wires \o b.labels \o b.no_connects \o b.text_notes
        nth(k) == CHOOSE i \in 1..Len(items) :
                      Cardinality({j \in 1..Len(items) : items[j].uuid < items[i].uuid}) = k - 1
    IN  [k \in 1..Len(items) |-> items[nth(k)]]

\* all_items = (self.components + self.wires + self.labels +
\*              self.no_connects + self.text_notes)
all_items(b) ==
    b.components \o b.wires \o b.labels \o b.no_connects \o b.text_notes

\* build(): the elements of the document between lib_symbols and
\* sheet_instances
build(b) == [status |-> "ok", items |-> all_items(b)]

(***************************************************************************)
(* run_erc.  What the validator and the file system do is the environment  *)
(* of the call, a record env:                                              *)
(*   first   what subprocess.run does with kicad_cli: "ran",               *)
(*           "FileNotFoundError" or "TimeoutExpired"                       *)
(*   found   whether find_kicad_cli() finds an executable                  *)
(*   second  what subprocess.run does with the executable found: "ran" or  *)
(*           "Exception"                                                   *)
(*   report  the file at output_path afterwards: [file |-> "missing"],     *)
(*           [file |-> "malformed"] (json.load raises JSONDecodeError),    *)
(*           [violations |-> list] or                                      *)
(*           [sheets |-> list of [violations |-> list]]                    *)
(*   output  result.stdout + result.stderr                                 *)
(* A violation is a record [severity |-> .., type |-> ..].                 *)
(***************************************************************************)
\* the result returned when the validator could not be run
erc_unknown(raw) ==
    [success |-> FALSE, errors |-> -1, warnings |-> -1, total |-> -1,
     details |-> <<>>, raw |-> raw]

\* len(re.findall(r';\s*<word>', text)) from index i on
RECURSIVE count_severity(_, _, _)
count_severity(text, word, i) ==
    IF i >= Len(text) THEN 0
    ELSE LET e == Lit(text, word, SpanIn(text, i + 1, SpaceChars))
         IN  IF At(text, i) = ";" /\ e >= 0
             THEN 1 + count_severity(text, word, e)
             ELSE count_severity(text, word, i + 1)

\* a reading that takes a run without a report for a run that failed
parse_text_erc_Unknown(text) == erc_unknown(text)

\* _parse_text_erc(text)
parse_text_erc(text) ==
    LET errors == count_severity(text, <<"e", "r", "r", "o", "r">>, 0)
        warnings == count_severity(text, <<"w", "a", "r", "n", "i", "n", "g">>, 0)
    IN  [success |-> errors = 0, errors |-> errors, warnings |-> warnings,
         total |-> errors + warnings, details |-> <<>>, raw |-> text]

\* _categorize(violations): how many violations there are of each type
categorize(violations) ==
    [t \in {violations[k].type : k \in 1..Len(violations)} |->
        Cardinality({k \in 1..Len(violations) : violations[k].type = t})]

\* the violations of a report, from either layout
all_violations(report) ==
    IF "violations" \in DOMAIN report THEN report.violations
    ELSE IF "sheets" \in DOMAIN report
         THEN Flatten([k \in 1..Len(report.sheets) |-> report.sheets[k].violations])
    ELSE <<>>

\* the part of run_erc after the validator has run
read_report(env) ==
    IF "file" \in DOMAIN env.report
    THEN parse_text_erc(env.output)
    ELSE LET violations == all_violations(env.report)
             errors == SelectSeq(violations, LAMBDA v : v.severity = "error")
             warnings == SelectSeq(violations, LAMBDA v : v.severity = "warning")
         IN  [success |-> Len(errors) = 0, errors |-> Len(errors),
              warnings |-> Len(warnings), total |-> Len(errors) + Len(warnings),
              details |-> violations, error_types |-> categorize(errors),
              warning_types |-> categorize(warnings)]

\* run_erc(schematic_path)
run_erc(env) ==
    IF env.first = "TimeoutExpired" THEN erc_unknown("timeout")
    ELSE IF env.first = "FileNotFoundError"
         THEN IF ~env.found THEN erc_unknown("kicad-cli not found")
              ELSE IF env.second # "ran" THEN erc_unknown("kicad-cli found but failed")
              ELSE read_report(env)
    ELSE read_report(env)

(***************************************************************************)
(* State: the document being worked on, the last call and what it returned;*)
(* the symbols dictionary of a SymbolLibrary; the fields of a              *)
(* SchematicBuilder; hist, the record of what the caller has done so far  *)
(* (history only: no operation reads it); and frame, the local variables   *)
(* of a running validate_and_fix_loop.                                     *)
(***************************************************************************)
VARIABLES content, call, ret, symbols, builder, hist, frame

vars == <<content, call, ret, symbols, builder, hist, frame>>

objVars == <<symbols, builder, hist, frame>>

NoCall == [op |-> "none"]
NoRet == [status |-> "none"]
NoObject == [object |-> "none"]

\* no SymbolLibrary and no SchematicBuilder has been constructed
NoObjects ==
    /\ symbols = NoObject
    /\ builder = NoObject
    /\ hist = NoObject
    /\ frame = NoObject

(***************************************************************************)
(* Scanning: find_block on every text over the structural characters.      *)
(***************************************************************************)
ScanChars == {LP, RP, QT, BS}

\* the example of the block-scanner property: (symbol "a)b" (pin))
ExampleBlock ==
    <<"(", "s", "y", "m", "b", "o", "l", " ", "\"", "a", ")", "b", "\"", " ",
      "(", "p", "i", "n", ")", ")">>

ScanTexts == SeqsUpTo(ScanChars, MaxScanLen) \cup {ExampleBlock}

InitScan ==
    /\ content \in ScanTexts
    /\ call = NoCall
    /\ ret = NoRet
    /\ NoObjects

FindBlock(start_pos) ==
    /\ call = NoCall
    /\ call' = [op |-> "find_block", content |-> content, start_pos |-> start_pos]
    /\ ret' = find_block(content, start_pos)
    /\ UNCHANGED content
    /\ UNCHANGED objVars

NextScan == \E p \in 0..Len(content) : FindBlock(p)

SpecScan == InitScan /\ [][NextScan]_vars


(***************************************************************************)
(* Editing: a document of blocks, text lines and whitespace, and one edit  *)
(* of it (each edit is a pure function of the text it is given).           *)
(***************************************************************************)
KeyK == <<"k">>
KeyKJ == <<"k", "j">>
Wire == <<"w", "i", "r", "e">>
Label == <<"l", "a", "b", "e", "l">>

\* (<kind> (uuid "<key>"))
Block(kind, key) == SearchTerm(kind) \o <<" ">> \o UuidMarker(key) \o <<")">>

EditItems ==
    { <<"a", NL>>, <<NL>>, <<TAB>>, <<RP>>, SearchTerm(Wire),
      Block(Wire, KeyK), Block(Wire, KeyKJ), Block(Label, KeyK) }

EditDocs == {Flatten(items) : items \in SeqsUpTo(EditItems, MaxItems)}

Keys == {KeyK, KeyKJ}
Kinds == {Wire, Label}

InitEdit ==
    /\ content \in EditDocs
    /\ call = NoCall
    /\ ret = NoRet
    /\ NoObjects

\* content = remove_by_uuid(content, uuid, element_type); an error raised
\* leaves the caller's document as it was
RemoveByUuid(uuid, element_type) ==
    LET r == remove_by_uuid(content, uuid, element_type) IN
    /\ call = NoCall
    /\ call' = [op |-> "remove_by_uuid", content |-> content, uuid |-> uuid,
                element_type |-> element_type]
    /\ ret' = r
    /\ content' = IF r.status = "ok" THEN r.text ELSE content
    /\ UNCHANGED objVars

\* content = remove_block_with_whitespace(content, block_start, block_end) on
\* the block find_block returns at an opening parenthesis
RemoveBlockWithWhitespace(block_start) ==
    LET blk == find_block(content, block_start) IN
    /\ call = NoCall
    /\ blk.status = "ok"
    /\ call' = [op |-> "remove_block_with_whitespace", content |-> content,
                block_start |-> block_start, block_end |-> blk.end_pos]
    /\ ret' = [status |-> "ok",
               text |-> remove_block_with_whitespace(content, block_start, blk.end_pos),
               block_start |-> block_start, block_end |-> blk.end_pos]
    /\ content' = ret'.text
    /\ UNCHANGED objVars

NextEdit ==
    \/ \E u \in Keys, k \in Kinds : RemoveByUuid(u, k)
    \/ \E p \in 0..(Len(content) - 1) : RemoveBlockWithWhitespace(p)

SpecEdit == InitEdit /\ [][NextEdit]_vars

(***************************************************************************)
(* Replacing a lib_id: a document of lib_id attributes and symbol keys.    *)
(***************************************************************************)
IdX == <<"x">>
IdY == <<"y">>
LibIds == {IdX, IdY}

LibItems == { LibIdAttr(IdX), LibIdAttr(IdY), SymbolKey(IdX), SymbolKey(IdY), <<RP>> }

LibDocs == {Flatten(items) : items \in SeqsUpTo(LibItems, MaxLibItems)}

InitReplace ==
    /\ content \in LibDocs
    /\ call = NoCall
    /\ ret = NoRet
    /\ NoObjects

\* content, n = replace_lib_id(content, old_id, new_id)
ReplaceLibId(old_id, new_id) ==
    /\ call = NoCall
    /\ call' = [op |-> "replace_lib_id", content |-> content, old_id |-> old_id,
                new_id |-> new_id]
    /\ ret' = replace_lib_id(content, old_id, new_id)
    /\ content' = ret'.text
    /\ UNCHANGED objVars

NextReplace == \E o \in LibIds : \E n \in LibIds \ {o} : ReplaceLibId(o, n)

SpecReplace == InitReplace /\ [][NextReplace]_vars

(***************************************************************************)
(* Coordinates: snap, pin_transform and pin_abs on inputs that include the *)
(* calls of the module's self-test and docstrings.                         *)
(***************************************************************************)
Rotations == {0, 90, 180, 270, 45, 360, -90}
SymbolPositions == {<<32000, 20000>>, <<0, 0>>, <<12700, 6350>>}
PinPositions == {<<-1778, 2540>>, <<0, 254>>, <<762, 254>>, <<762, -254>>}

InitGrid ==
    /\ content = <<>>
    /\ call = NoCall
    /\ ret = NoRet
    /\ NoObjects

Snap(v) ==
    /\ call' = [op |-> "snap", v |-> v]
    /\ ret' = [status |-> "ok", x |-> snap(v), y |-> 0]
    /\ UNCHANGED content
    /\ UNCHANGED objVars

PinTransform(p, rotation) ==
    /\ call' = [op |-> "pin_transform", pin_x |-> p[1], pin_y |-> p[2],
                rotation |-> rotation]
    /\ ret' = pin_transform(p[1], p[2], rotation)
    /\ UNCHANGED content
    /\ UNCHANGED objVars

PinAbs(s, p, rotation, mirror_y) ==
    /\ call' = [op |-> "pin_abs", sx |-> s[1], sy |-> s[2], px |-> p[1], py |-> p[2],
                rotation |-> rotation, mirror_y |-> mirror_y]
    /\ ret' = pin_abs(s[1], s[2], p[1], p[2], rotation, mirror_y)
    /\ UNCHANGED content
    /\ UNCHANGED objVars

NextGrid ==
    \/ \E v \in (-MaxCoord)..MaxCoord : Snap(v)
    \/ \E p \in PinPositions, r \in Rotations : PinTransform(p, r)
    \/ \E s \in SymbolPositions, p \in PinPositions, r \in Rotations, m \in BOOLEAN :
          PinAbs(s, p, r, m)

SpecGrid == InitGrid /\ [][NextGrid]_vars

(***************************************************************************)
(* Annotating: a document of instance references and Reference properties. *)
(***************************************************************************)
IdA == <<"A">>
IdB == <<"B">>
IdA1 == <<"A", "1">>
IdHidden == <<"#", "P">>
RefIds == {IdA, IdB, IdA1, IdHidden}

RefItems ==
    { RefInst(IdA), RefInst(IdB), RefInst(IdA1), RefInst(IdHidden),
      RefProp(IdA), RefProp(IdB), RefProp(IdA1) }

\* the document of the module's self-test
ExampleRefIds ==
    << <<"C", "_", "R", "X", "1", "B", "_", "N">>, <<"R", "1">>,
       <<"J", "_", "P", "W", "R">> >>

ExampleRefs ==
    RefInst(ExampleRefIds[1]) \o RefInst(ExampleRefIds[2])
      \o RefInst(ExampleRefIds[3])

RefDocs ==
    {Flatten(items) : items \in SeqsUpTo(RefItems, MaxRefItems)} \cup {ExampleRefs}

InitAnnotate ==
    /\ content \in RefDocs
    /\ call = NoCall
    /\ ret = NoRet
    /\ NoObjects

\* content, fixed = fix_annotation_suffixes(content)
FixAnnotationSuffixes ==
    /\ call = NoCall
    /\ call' = [op |-> "fix_annotation_suffixes", content |-> content]
    /\ ret' = fix_annotation_suffixes(content)
    /\ content' = ret'.text
    /\ UNCHANGED objVars

NextAnnotate == FixAnnotationSuffixes

SpecAnnotate == InitAnnotate /\ [][NextAnnotate]_vars

(***************************************************************************)
(* The symbol library: a document of at most MaxDefs top-level symbol      *)
(* definitions, loaded once, and lookups by name.                          *)
(***************************************************************************)
NameFoo == <<"F", "o", "o">>
NameLFoo == <<"L", ":", "F", "o", "o">>
NameMFoo == <<"M", ":", "F", "o", "o">>
NameBar == <<"B", "a", "r">>
NameUnit == <<"F", "o", "o", "_", "1", "_", "1">>

\* (symbol "<name>"
SymLine(name) == <<"(", "s", "y", "m", "b", "o", "l", " ", "\"">> \o name \o <<QT>>

\* sym_name = lib_id.split(':')[-1] if ':' in lib_id else lib_id, and the
\* name of its sub-symbol: f'{sym_name}_{u}_1'
SubName(lib_id, u) ==
    (IF Contains(lib_id, <<":">>) THEN after_colon(lib_id) ELSE lib_id)
      \o <<"_", u, "_", "1">>

\* a pin declaration on one line
PinLine(pin_type, at, name, number) ==
    <<"(", "p", "i", "n", " ">> \o pin_type \o <<" ", "l", "i", "n", "e", " ", "(", "a", "t", " ">> \o at \o <<")", " ", "(", "l", "e", "n", "g", "t", "h", " ", "1", ".", "2", "7",
      ")", " ", "(", "n", "a", "m", "e", " ", "\"">>
      \o name \o <<"\"", ")", " ", "(", "n", "u", "m", "b", "e", "r", " ", "\"">> \o number \o <<"\"", ")", ")">>

PinA == PinLine(<<"p", "a", "s", "s", "i", "v", "e">>, <<"0", " ", "2", ".", "5", "4", " ", "2", "7", "0">>, <<"A">>, <<"1">>)
PinB == PinLine(<<"i", "n", "p", "u", "t">>, <<"0", " ", "-", "2", ".", "5", "4", " ", "9", "0">>, <<"B">>, <<"2">>)

PinDefA ==
    [name |-> <<"A">>, number |-> <<"1">>, x |-> 0, y |-> 254, angle |-> 270,
     length |-> 127, pin_type |-> <<"p", "a", "s", "s", "i", "v", "e">>]
PinDefB ==
    [name |-> <<"B">>, number |-> <<"2">>, x |-> 0, y |-> -254, angle |-> 90,
     length |-> 127, pin_type |-> <<"i", "n", "p", "u", "t">>]

\* a property whose value holds an opening parenthesis
QuotedParen == <<"(", "p", "r", "o", "p", "e", "r", "t", "y", " ", "\"", "V", "a",
      "l", "u", "e", "\"", " ", "\"", "(", "\"", ")">>

Indent == <<SP, SP>>
Close == <<RP>>

\* The shapes of a top-level definition, as lists of lines.
\* no pins
NoPinsDef(n) == <<SymLine(n), Close>>

\* the layout lib_sym_2pin writes: an empty _0_1 and the pins in _1_1
TwoPinLayout(n) ==
    <<SymLine(n), Indent \o SymLine(SubName(n, "0")), Indent \o Close,
      Indent \o SymLine(SubName(n, "1")), Indent \o PinA, Indent \o PinB,
      Indent \o Close, Close>>

\* a pin in each sub-symbol, B before A
BothUnitsDef(n) ==
    <<SymLine(n), Indent \o SymLine(SubName(n, "0")), Indent \o PinB,
      Indent \o Close, Indent \o SymLine(SubName(n, "1")), Indent \o PinA,
      Indent \o Close, Close>>

\* a pin of the definition itself
DirectPinDef(n) == <<SymLine(n), Indent \o PinA, Close>>

\* a quoted parenthesis before the pin
QuotedParenDef(n) == <<SymLine(n), Indent \o QuotedParen, Indent \o PinA, Close>>

\* the whole definition on one line
OneLineDef(n) == <<SymLine(n) \o <<SP>> \o PinB \o Close>>

DefShapes(n) ==
    { NoPinsDef(n), TwoPinLayout(n), BothUnitsDef(n), DirectPinDef(n),
      QuotedParenDef(n), OneLineDef(n) }

DefNames == {NameFoo, NameLFoo}

\* the top-level items of a document: definitions, and a sub-symbol that
\* stands at top level
TopItems ==
    UNION {DefShapes(n) : n \in DefNames}
      \cup { DirectPinDef(NameUnit) }

\* the document of a list of top-level items
Document(items) == join_lines(Flatten(items), 1, Len(Flatten(items)))

LibraryDocs == {Document(items) : items \in SeqsUpTo(TopItems, MaxDefs)}

LookupNames == {NameFoo, NameLFoo, NameMFoo, NameBar, NameUnit}

InitLibrary ==
    /\ content \in LibraryDocs
    /\ call = NoCall
    /\ ret = NoRet
    /\ symbols = EmptyDict
    /\ builder = NoObject
    /\ hist = NoObject
    /\ frame = NoObject

\* lib = SymbolLibrary(); lib._parse(content)
Parse ==
    /\ call = NoCall
    /\ call' = [op |-> "_parse", content |-> content]
    /\ ret' = [status |-> "ok"]
    /\ symbols' = parse(symbols, content)
    /\ UNCHANGED <<content, builder, hist, frame>>

\* lib.get(name) on the library that was loaded
Get(name) ==
    /\ call # NoCall
    /\ call' = [op |-> "get", name |-> name]
    /\ ret' = [status |-> "ok", value |-> get(symbols, name)]
    /\ UNCHANGED <<content, symbols, builder, hist, frame>>

NextLibrary ==
    \/ Parse
    \/ \E n \in LookupNames : Get(n)

SpecLibrary == InitLibrary /\ [][NextLibrary]_vars

(***************************************************************************)
(* A session with a SchematicBuilder: at most MaxCalls calls of its        *)
(* operations, with or without a symbol library.  The library is the one   *)
(* _parse reads from a definition laid out as lib_sym_2pin lays it out:    *)
(* symbol Foo with pin A (number 1) at (0, 2.54) and pin B (number 2) at   *)
(* (0, -2.54).                                                             *)
(***************************************************************************)
TwoPinLibrary == parse(EmptyDict, Document(<<TwoPinLayout(NameFoo)>>))

RefR1 == <<"R", "1">>
RefR2 == <<"R", "2">>
RefR9 == <<"R", "9">>
NetA == <<"N", "E", "T", "_", "A">>
PwrId == <<"p", "o", "w", "e", "r", ":", "G", "N", "D">>

\* place calls: R1 is placed off the grid, or rotated and mirrored on the
\* grid; R2 is an instance of a symbol the library does not have
Placements ==
    { [lib_id |-> NameFoo, ref |-> RefR1, x |-> 1000, y |-> 1000, rotation |-> 0,
       mirror_y |-> FALSE],
      [lib_id |-> NameFoo, ref |-> RefR1, x |-> 2540, y |-> 0, rotation |-> 90,
       mirror_y |-> TRUE],
      [lib_id |-> NameBar, ref |-> RefR2, x |-> 0, y |-> 0, rotation |-> 0,
       mirror_y |-> FALSE] }

\* the pins connect calls name: R1's pins by number and by name, a pin R1
\* does not have, a pin of R2, a pin of a component that was never placed
PinRefs ==
    { [ref |-> RefR1, pin_name |-> <<"1">>, by_number |-> TRUE],
      [ref |-> RefR1, pin_name |-> <<"2">>, by_number |-> TRUE],
      [ref |-> RefR1, pin_name |-> <<"A">>, by_number |-> FALSE],
      [ref |-> RefR1, pin_name |-> <<"9">>, by_number |-> TRUE],
      [ref |-> RefR2, pin_name |-> <<"1">>, by_number |-> TRUE],
      [ref |-> RefR9, pin_name |-> <<"1">>, by_number |-> TRUE] }

\* wire_dx, wire_dy of connect_pin: none, one that leaves the grid point of
\* the pin, and one that is quantized back onto it
NoOffset == <<0, 0>>
WireOffsets == { NoOffset, <<250, 0>>, <<50, 0>> }

\* connect_pin calls: pin 1 of R1 with and without a wire, the others without
ConnectCalls ==
    {c \in (PinRefs \ {[ref |-> RefR1, pin_name |-> <<"2">>, by_number |-> TRUE]})
              \X WireOffsets :
        c[2] = NoOffset \/ c[1] = [ref |-> RefR1, pin_name |-> <<"1">>, by_number |-> TRUE]}

\* connect_pin_noconnect calls
NoConnectCalls ==
    PinRefs \ {[ref |-> RefR1, pin_name |-> <<"A">>, by_number |-> FALSE]}

\* the point of the elements placed by hand, off the grid
FreePoints == { <<1000, 1000>> }

\* the second end of a wire drawn from p: p itself, or a point to its right
WireEnds(p) == { p, <<p[1] + 1270, p[2]>> }

InitBuilder ==
    /\ content = <<>>
    /\ call = NoCall
    /\ ret = NoRet
    /\ symbols = NoObject
    /\ frame = NoObject
    /\ builder \in {SchematicBuilder(None), SchematicBuilder(TwoPinLibrary)}
    /\ hist = <<>>

\* a call of the builder: hist is the list of the calls made so far
Called(c, r, b) ==
    /\ Len(hist) < MaxCalls
    /\ call' = c
    /\ ret' = r
    /\ builder' = b
    /\ hist' = Append(hist, c)
    /\ UNCHANGED <<content, symbols, frame>>

Place(p) ==
    Called([op |-> "place", lib_id |-> p.lib_id, ref |-> p.ref, x |-> p.x,
            y |-> p.y, rotation |-> p.rotation, mirror_y |-> p.mirror_y],
           [status |-> "ok"],
           place(builder, p.lib_id, p.ref, p.x, p.y, p.rotation, p.mirror_y, 1))

PlacePower(p) ==
    Called([op |-> "place_power", x |-> p[1], y |-> p[2]], [status |-> "ok"],
           place_power(builder, PwrId, p[1], p[2], 0))

PlacePwrFlag(p) ==
    Called([op |-> "place_pwr_flag", x |-> p[1], y |-> p[2]], [status |-> "ok"],
           place_pwr_flag(builder, p[1], p[2], NetA))

ConnectPin(t, d) ==
    LET r == connect_pin(builder, t.ref, t.pin_name, NetA, d[1], d[2], 0, t.by_number)
    IN  Called([op |-> "connect_pin", ref |-> t.ref, pin_name |-> t.pin_name,
                by_number |-> t.by_number, wire_dx |-> d[1], wire_dy |-> d[2]],
               [status |-> r.status], r.builder)

ConnectPinNoconnect(t) ==
    LET r == connect_pin_noconnect(builder, t.ref, t.pin_name, t.by_number)
    IN  Called([op |-> "connect_pin_noconnect", ref |-> t.ref,
                pin_name |-> t.pin_name, by_number |-> t.by_number],
               [status |-> r.status], r.builder)

WireCall(p, q) ==
    Called([op |-> "wire", x1 |-> p[1], y1 |-> p[2], x2 |-> q[1], y2 |-> q[2]],
           [status |-> "ok"], wire(builder, p[1], p[2], q[1], q[2]))

LabelCall(p) ==
    Called([op |-> "label", x |-> p[1], y |-> p[2]], [status |-> "ok"],
           label(builder, NetA, p[1], p[2], 0))

NoConnect(p) ==
    Called([op |-> "no_connect", x |-> p[1], y |-> p[2]], [status |-> "ok"],
           no_connect(builder, p[1], p[2]))

TextNote(p) ==
    Called([op |-> "text_note", x |-> p[1], y |-> p[2]], [status |-> "ok"],
           text_note(builder, <<"n">>, p[1], p[2]))

Build == Called([op |-> "build"], build(builder), builder)

NextBuilder ==
    \/ \E p \in Placements : Place(p)
    \/ \E p \in FreePoints : PlacePower(p)
    \/ \E p \in FreePoints : PlacePwrFlag(p)
    \/ \E c \in ConnectCalls : ConnectPin(c[1], c[2])
    \/ \E t \in NoConnectCalls : ConnectPinNoconnect(t)
    \/ \E p \in FreePoints : \E q \in WireEnds(p) : WireCall(p, q)
    \/ \E p \in FreePoints : LabelCall(p)
    \/ \E p \in FreePoints : NoConnect(p)
    \/ \E p \in FreePoints : TextNote(p)
    \/ Build

SpecBuilder == InitBuilder /\ [][NextBuilder]_vars

(***************************************************************************)
(* Validation: run_erc in every environment with at most MaxViolations     *)
(* violations in the report.                                               *)
(***************************************************************************)
Violations ==
    { [severity |-> "error", type |-> "pin_not_connected"],
      [severity |-> "warning", type |-> "lib_symbol_issues"],
      [severity |-> "exclusion", type |-> "pin_not_connected"] }

ViolationLists == SeqsUpTo(Violations, MaxViolations)

\* a report of either layout; a nested report spreads its violations over
\* two sheets
Reports ==
    {[file |-> "missing"], [file |-> "malformed"]}
      \cup {[violations |-> vs] : vs \in ViolationLists}
      \cup {[sheets |-> IF vs = <<>> THEN << [violations |-> <<>>] >>
                         ELSE << [violations |-> <<Head(vs)>>],
                                 [violations |-> Tail(vs)] >>] :
               vs \in ViolationLists}

\* what the validator prints
Outputs ==
    { <<>>, <<"u", "n", "a", "b", "l", "e", " ", "t", "o", " ", "l", "o", "a", "d",
      " ", "s", "c", "h", "e", "m", "a", "t", "i", "c", "\n">>,
      <<"[", "p", "i", "n", "_", "n", "o", "t", "_", "c", "o", "n", "n", "e",
      "c", "t", "e", "d", "]", ":", " ", "x", "\n", " ", " ", " ", " ",
      ";", " ", "e", "r", "r", "o", "r", "\n", "[", "l", "i", "b", "]",
      ":", " ", "y", "\n", " ", " ", " ", " ", ";", " ", " ", "w", "a",
      "r", "n", "i", "n", "g", "\n">> }

Environments ==
    [first : {"ran", "FileNotFoundError", "TimeoutExpired"}, found : BOOLEAN,
     second : {"ran", "Exception"}, report : Reports, output : Outputs]

InitErc ==
    /\ content = <<>>
    /\ call = NoCall
    /\ ret = NoRet
    /\ NoObjects

\* result = run_erc(schematic_path) in the environment env
RunErc(env) ==
    /\ call = NoCall
    /\ call' = [op |-> "run_erc", env |-> env]
    /\ ret' = run_erc(env)
    /\ UNCHANGED content
    /\ UNCHANGED objVars

NextErc == \E env \in Environments : RunErc(env)

SpecErc == InitErc /\ [][NextErc]_vars

(***************************************************************************)
(* The validate and fix loop: validate_and_fix_loop for every              *)
(* max_iterations up to MaxIterations, every validator environment of      *)
(* LoopEnvironments at each run and either answer of fix_callback.  frame  *)
(* holds the local variables of the running function and the statement it  *)
(* is at; hist records the validation runs and the fix_callback calls.     *)
(* fix_callback is the caller's function: it answers True or False.        *)
(***************************************************************************)
\* result before the first assignment to it
Unbound == [unbound |-> TRUE]

\* the validator finds nothing, finds one error, finds one warning, is not
\* installed, or does not finish in time
LoopEnvironments ==
    { [first |-> "ran", found |-> TRUE, second |-> "ran",
       report |-> [violations |-> <<>>], output |-> <<>>],
      [first |-> "ran", found |-> TRUE, second |-> "ran",
       report |-> [violations |-> <<[severity |-> "error",
                                     type |-> "pin_not_connected"]>>],
       output |-> <<>>],
      [first |-> "ran", found |-> TRUE, second |-> "ran",
       report |-> [violations |-> <<[severity |-> "warning",
                                     type |-> "lib_symbol_issues"]>>],
       output |-> <<>>],
      [first |-> "FileNotFoundError", found |-> FALSE, second |-> "ran",
       report |-> [file |-> "missing"], output |-> <<>>],
      [first |-> "TimeoutExpired", found |-> TRUE, second |-> "ran",
       report |-> [file |-> "missing"], output |-> <<>>] }

\* validate_and_fix_loop(schematic_path, fix_callback, max_iterations) is
\* entered
InitLoop ==
    /\ content = <<>>
    /\ \E n \in 0..MaxIterations :
          /\ call = [op |-> "validate_and_fix_loop", max_iterations |-> n]
          /\ frame = [pc |-> "for", i |-> 0, max_iterations |-> n,
                      result |-> Unbound]
    /\ ret = NoRet
    /\ symbols = NoObject
    /\ builder = NoObject
    /\ hist = <<>>

\* for i in range(max_iterations): result = run_erc(...);
\* if result["errors"] == 0: return result
Validate(env) ==
    LET result == run_erc(env)
    IN  /\ frame.pc = "for"
        /\ frame.i < frame.max_iterations
        /\ hist' = Append(hist, [op |-> "run_erc", result |-> result])
        /\ IF result.errors = 0
           THEN /\ frame' = [frame EXCEPT !.result = result, !.pc = "done"]
                /\ ret' = [status |-> "ok", value |-> result]
           ELSE /\ frame' = [frame EXCEPT !.result = result, !.pc = "fix"]
                /\ ret' = ret
        /\ UNCHANGED <<content, call, symbols, builder>>

\* if not fix_callback(result, i): return result
FixCallback(applied) ==
    /\ frame.pc = "fix"
    /\ hist' = Append(hist, [op |-> "fix_callback", result |-> frame.result,
                             iteration |-> frame.i, returned |-> applied])
    /\ IF applied
       THEN /\ frame' = [frame EXCEPT !.i = @ + 1, !.pc = "for"]
            /\ ret' = ret
       ELSE /\ frame' = [frame EXCEPT !.pc = "done"]
            /\ ret' = [status |-> "ok", value |-> frame.result]
    /\ UNCHANGED <<content, call, symbols, builder>>

\* the range is exhausted: return result, which raises UnboundLocalError
\* when no iteration has assigned it
Exhausted ==
    /\ frame.pc = "for"
    /\ frame.i >= frame.max_iterations
    /\ frame' = [frame EXCEPT !.pc = "done"]
    /\ ret' = IF frame.result = Unbound
              THEN [status |-> "UnboundLocalError"]
              ELSE [status |-> "ok", value |-> frame.result]
    /\ UNCHANGED <<content, call, symbols, builder, hist>>

NextLoop ==
    \/ \E env \in LoopEnvironments : Validate(env)
    \/ \E applied \in BOOLEAN : FixCallback(applied)
    \/ Exhausted

SpecLoop == InitLoop /\ [][NextLoop]_vars

(***************************************************************************)
(* The document grammar the claims speak of: a double-quoted string runs   *)
(* from a quote to the next quote that is not escaped, and inside a string *)
(* a backslash escapes the character after it.                             *)
(***************************************************************************)
\* the lexer's state just before text[i], lexing from index start:
\* "out" (outside strings), "in" (inside one), "esc" (inside, after a backslash)
RECURSIVE LexState(_, _, _)
LexState(text, start, i) ==
    IF i <= start THEN "out"
    ELSE LET p == LexState(text, start, i - 1)
             c == At(text, i - 1)
         IN  IF p = "out" THEN (IF c = QT THEN "in" ELSE "out")
             ELSE IF p = "esc" THEN "in"
             ELSE IF c = BS THEN "esc"
             ELSE IF c = QT THEN "out"
             ELSE "in"

\* text[i] is the parenthesis ch and stands outside every quoted string
Structural(text, start, i, ch) ==
    At(text, i) = ch /\ LexState(text, start, i) = "out"

\* parentheses outside quoted strings opened and not closed in text[start..i]
DepthAfter(text, start, i) ==
    Cardinality({j \in start..i : Structural(text, start, j, LP)})
      - Cardinality({j \in start..i : Structural(text, start, j, RP)})

\* the closing parentheses outside quoted strings at which the depth is 0
Closers(text, start) ==
    {i \in start..(Len(text) - 1) :
        Structural(text, start, i, RP) /\ DepthAfter(text, start, i) = 0}

FirstCloser(text, start) ==
    CHOOSE i \in Closers(text, start) : \A j \in Closers(text, start) : i <= j

\* every backslash of text[start..] stands inside a quoted string, the only
\* place the grammar gives it a meaning
BackslashesQuoted(text, start) ==
    \A i \in start..(Len(text) - 1) :
        At(text, i) = BS => LexState(text, start, i) # "out"

IsFindBlock == call.op = "find_block"

\* the request is a text of the grammar with an opening parenthesis at start_pos
GrammarRequest ==
    /\ IsFindBlock
    /\ call.start_pos < Len(call.content)
    /\ At(call.content, call.start_pos) = LP
    /\ BackslashesQuoted(call.content, call.start_pos)

(***************************************************************************)
(* C1: for every text and every start index holding an opening            *)
(* parenthesis, find_block returns the span ending at the first closing    *)
(* parenthesis outside any quoted string at which the depth of parentheses *)
(* outside quoted strings is back at zero, with end_pos just after it.     *)
(***************************************************************************)
C1_FindBlockSpan ==
    (GrammarRequest /\ Closers(call.content, call.start_pos) # {}) =>
        LET e == FirstCloser(call.content, call.start_pos) IN
        /\ ret.status = "ok"
        /\ ret.end_pos = e + 1
        /\ ret.text = Slice(call.content, call.start_pos, e + 1)

\* C1 on the texts that hold no backslash: there the claim is what the code does
C1_FindBlockSpanNoBackslash ==
    (/\ GrammarRequest
     /\ \A i \in 1..Len(call.content) : call.content[i] # BS
     /\ Closers(call.content, call.start_pos) # {}) =>
        LET e == FirstCloser(call.content, call.start_pos) IN
        /\ ret.status = "ok"
        /\ ret.end_pos = e + 1
        /\ ret.text = Slice(call.content, call.start_pos, e + 1)

\* the example of the claim: the whole of (symbol "a)b" (pin)) from index 0
C1_Example ==
    (IsFindBlock /\ call.content = ExampleBlock /\ call.start_pos = 0) =>
        (ret.status = "ok" /\ ret.text = ExampleBlock /\ ret.end_pos = 20)

(***************************************************************************)
(* C6: find_block never returns a span for an ill-formed request: it fails *)
(* with NotABlockStart when text[start_pos] is not an opening parenthesis, *)
(* and with UnbalancedBlock when the text ends before the depth of         *)
(* parentheses outside quoted strings is back at zero.                     *)
(***************************************************************************)
C6_FindBlockErrors ==
    /\ (/\ IsFindBlock
        /\ call.start_pos < Len(call.content)
        /\ At(call.content, call.start_pos) # LP) => ret.status = "NotABlockStart"
    /\ (GrammarRequest /\ Closers(call.content, call.start_pos) = {}) =>
           ret.status = "UnbalancedBlock"

\* the indices the while loop of the call was at
Scanned ==
    call.start_pos..(IF ret.status = "ok" THEN ret.end_pos - 1 ELSE Len(call.content))

\* a block holding the string of one escaped backslash: ("\\")
EscapedBackslashBlock == <<LP, QT, BS, BS, QT, RP>>

(***************************************************************************)
(* C24: in find_block the inside-quoted-string flag toggles on exactly the  *)
(* unescaped quote characters under backslash escaping: at every index the *)
(* scan is at, the flag is set if and only if the index stands inside a     *)
(* quoted string of the grammar.  A quote escaped by a backslash does not   *)
(* end the string; a quote after an escaped backslash does, so the ')'      *)
(* after the string of ("\\") is structural and ends the block.             *)
(***************************************************************************)
C24_FlagTogglesOnUnescapedQuotes ==
    GrammarRequest =>
      /\ \A i \in Scanned :
            in_string(call.content, call.start_pos, i)
              <=> LexState(call.content, call.start_pos, i) # "out"
      /\ (call.content = EscapedBackslashBlock /\ call.start_pos = 0) =>
            (ret.status = "ok" /\ ret.end_pos = 6)

(***************************************************************************)
(* Deleting a block.                                                       *)
(***************************************************************************)
IsRemoveByUuid == call.op = "remove_by_uuid"

\* a deletion (by either operation) that returned an edited text
Deleted ==
    /\ call.op \in {"remove_by_uuid", "remove_block_with_whitespace"}
    /\ ret.status = "ok"

\* the number of places where pat occurs in s
Occurrences(s, pat) == Cardinality({i \in 0..Len(s) : MatchAt(s, pat, i)})

Blank(c) == c \in {SP, TAB}

(***************************************************************************)
(* C2: when the marker (uuid "K") occurs exactly once in the document, a   *)
(* successful remove_by_uuid(document, K, kind) returns a text in which    *)
(* the marker (uuid "K") no longer occurs.                                 *)
(***************************************************************************)
C2_KeyAbsentAfterRemove ==
    (/\ IsRemoveByUuid
     /\ ret.status = "ok"
     /\ Occurrences(call.content, UuidMarker(call.uuid)) = 1) =>
        ~Contains(ret.text, UuidMarker(call.uuid))

(***************************************************************************)
(* C3: a successful deletion of a block that stands on its own lines       *)
(* between two other lines leaves the line before it and the line after it *)
(* two separate, unchanged lines, with no blank line where the block was:  *)
(* the result is the text up to and including the line before, followed by *)
(* the text from the line after on.                                        *)
(***************************************************************************)
\* the index after the last newline before index i, or 0
RECURSIVE LineStart(_, _)
LineStart(s, i) ==
    IF i = 0 \/ At(s, i - 1) = NL THEN i ELSE LineStart(s, i - 1)

\* the index of the first newline at or after index i, or len(s)
RECURSIVE LineEnd(_, _)
LineEnd(s, i) ==
    IF i >= Len(s) \/ At(s, i) = NL THEN i ELSE LineEnd(s, i + 1)

\* the block s[bs:be] has its lines to itself, a non-blank line ends just
\* before them and a non-blank line starts just after them
OnOwnLines(s, bs, be) ==
    LET ls == LineStart(s, bs)
        le == LineEnd(s, be)
    IN  /\ \A i \in ls..(bs - 1) : Blank(At(s, i))
        /\ \A i \in be..(le - 1) : Blank(At(s, i))
        /\ ls >= 2 /\ ~Blank(At(s, ls - 2)) /\ At(s, ls - 2) # NL
        /\ le + 1 < Len(s) /\ ~Blank(At(s, le + 1)) /\ At(s, le + 1) # NL

C3_LineStructureKept ==
    (Deleted /\ OnOwnLines(call.content, ret.block_start, ret.block_end)) =>
        ret.text =
            Slice(call.content, 0, LineStart(call.content, ret.block_start))
              \o Slice(call.content, LineEnd(call.content, ret.block_end) + 1,
                       Len(call.content))

(***************************************************************************)
(* C4: the result of a successful remove_by_uuid is the input with exactly *)
(* one contiguous span deleted: the located block, plus only spaces/tabs   *)
(* and at most one newline on each side; everything outside the span is    *)
(* kept verbatim and in order.                                             *)
(***************************************************************************)
\* s[a:b] is an optional newline followed by blanks
LeadingFringe(s, a, b) ==
    \A i \in a..(b - 1) : Blank(At(s, i)) \/ (i = a /\ At(s, i) = NL)

\* s[a:b] is blanks followed by an optional newline
TrailingFringe(s, a, b) ==
    \A i \in a..(b - 1) : Blank(At(s, i)) \/ (i = b - 1 /\ At(s, i) = NL)

\* the block remove_by_uuid is to locate: the balanced block at the nearest
\* opening token of the kind before the marker
LocatedBlock ==
    LET pos == Find(call.content, UuidMarker(call.uuid))
        bs == RFind(call.content, SearchTerm(call.element_type), 0, pos)
    IN  [start |-> bs, end |-> find_block(call.content, bs).end_pos]

C4_OneSpanDeleted ==
    (IsRemoveByUuid /\ ret.status = "ok") =>
        LET s == call.content
            bs == LocatedBlock.start
            be == LocatedBlock.end
        IN  /\ 0 <= bs /\ bs < be /\ be <= Len(s)
            /\ \E a \in 0..bs, b \in be..Len(s) :
                  /\ LeadingFringe(s, a, bs)
                  /\ TrailingFringe(s, be, b)
                  /\ ret.text = Slice(s, 0, a) \o Slice(s, b, Len(s))
                  /\ content = ret.text

\* a deletion that took a newline on both sides of the block and kept
\* another block of the document
C4_Witness ==
    /\ IsRemoveByUuid
    /\ ret.status = "ok"
    /\ ret.block_start >= 1
    /\ At(call.content, ret.block_start - 1) = NL
    /\ ret.block_end < Len(call.content)
    /\ At(call.content, ret.block_end) = NL
    /\ Contains(ret.text, Block(Wire, KeyKJ))

(***************************************************************************)
(* C5: remove_by_uuid fails, returning no edited document, with            *)
(* KeyNotFound when the marker is absent, with ParentBlockNotFound when no *)
(* opening token of the kind precedes the marker, and with KeyNotInBlock   *)
(* when the block at the nearest preceding opening token of the kind does  *)
(* not contain the key -- so that a block deleted is always the block      *)
(* holding the key, never an earlier sibling of the same kind.             *)
(***************************************************************************)
C5_Failures ==
    IsRemoveByUuid =>
        LET s == call.content
            pos == Find(s, UuidMarker(call.uuid))
            bs == RFind(s, SearchTerm(call.element_type), 0, pos)
            blk == find_block(s, bs)
        IN  /\ pos = -1 => ret.status = "KeyNotFound"
            /\ (pos # -1 /\ bs = -1) => ret.status = "ParentBlockNotFound"
            /\ (pos # -1 /\ bs # -1 /\ blk.status = "ok"
                  /\ ~Contains(blk.text, call.uuid)) => ret.status = "KeyNotInBlock"
            /\ ret.status # "ok" => (ret.text = <<>> /\ content = s)

\* the block a successful remove_by_uuid deleted holds the marker of the key
C5_DeletedBlockHoldsKey ==
    (IsRemoveByUuid /\ ret.status = "ok") =>
        LET pos == Find(call.content, UuidMarker(call.uuid)) IN
        /\ ret.block_start < pos
        /\ pos + Len(UuidMarker(call.uuid)) <= ret.block_end

C5_RemoveByUuidErrors == C5_Failures /\ C5_DeletedBlockHoldsKey


(***************************************************************************)
(* Coordinates.                                                            *)
(***************************************************************************)
IsPinAbs(sx, sy, px, py, rotation) ==
    /\ call.op = "pin_abs"
    /\ call.sx = sx /\ call.sy = sy /\ call.px = px /\ call.py = py
    /\ call.rotation = rotation /\ call.mirror_y = FALSE

C8_RotationTable ==
    /\ call.op = "pin_transform" =>
          LET px == call.pin_x
              py == call.pin_y
              r == call.rotation
          IN  /\ r = 0 => (ret.status = "ok" /\ <<ret.x, ret.y>> = <<px, -py>>)
              /\ r = 90 => (ret.status = "ok" /\ <<ret.x, ret.y>> = <<py, px>>)
              /\ r = 180 => (ret.status = "ok" /\ <<ret.x, ret.y>> = <<-px, py>>)
              /\ r = 270 => (ret.status = "ok" /\ <<ret.x, ret.y>> = <<-py, -px>>)
              /\ r \notin {0, 90, 180, 270} => ret.status = "InvalidRotation"
    /\ call.op = "pin_abs" =>
          (ret.status = "InvalidRotation" <=> call.rotation \notin {0, 90, 180, 270})

\* the pin at (7.62, -2.54) under rotation 270
C8_Witness ==
    /\ call.op = "pin_transform"
    /\ call.rotation = 270
    /\ call.pin_x = 762 /\ call.pin_y = -254
    /\ <<ret.x, ret.y>> = <<254, -762>>

(***************************************************************************)
(* C9: snap is idempotent and lands on the grid: snap(snap(v)) = snap(v),  *)
(* and snap(v) is a multiple of the grid constant that is a nearest grid   *)
(* multiple to v.                                                          *)
(***************************************************************************)
Dist(a, b) == IF a >= b THEN a - b ELSE b - a

C9_SnapIdempotentOnGrid ==
    call.op = "snap" =>
        LET v == call.v
            w == ret.x
        IN  /\ snap(w) = w
            /\ \E k \in (-MaxCoord)..MaxCoord : w = k * GRID
            /\ \A k \in (-MaxCoord)..MaxCoord : Dist(v, w) <= Dist(v, k * GRID)

\* a coordinate off the grid that snap moved down to a grid point
C9_Witness ==
    /\ call.op = "snap"
    /\ call.v = 300
    /\ ret.x = 254

(***************************************************************************)
(* C10: replace_lib_id returns as count the total number of substitutions  *)
(* it performed: the (lib_id "old") occurrences replaced plus the          *)
(* (symbol "old" occurrences replaced, however many there are of either.   *)
(***************************************************************************)
C10_CountIsTotal ==
    call.op = "replace_lib_id" =>
        ret.count = Occurrences(call.content, LibIdAttr(call.old_id))
                      + Occurrences(call.content, SymbolKey(call.old_id))

(***************************************************************************)
(* fix_annotation_suffixes                                                 *)
(***************************************************************************)
IsFixAnnotation == call.op = "fix_annotation_suffixes"

\* the reference ids of a text: what stands between (reference " and the next
\* quote, where that quote is followed by a closing parenthesis
ReferenceIds(text) ==
    {Slice(text, a, b) : <<a, b>> \in
        {p \in (0..Len(text)) \X (0..Len(text)) :
            /\ p[1] < p[2]
            /\ MatchAt(text, RefOpen, p[1] - Len(RefOpen))
            /\ MatchAt(text, <<QT, RP>>, p[2])
            /\ \A k \in p[1]..(p[2] - 1) : At(text, k) # QT}}

\* the visible reference ids of a text that do not end in a digit
Unannotated(text) ==
    {r \in ReferenceIds(text) : Head(r) # "#" /\ ~IsDigit(r[Len(r)])}

\* the id whose instance reference or Reference property starts at index i
IdAt(text, ids, i) ==
    {r \in ids : MatchAt(text, RefInst(r), i) \/ MatchAt(text, RefProp(r), i)}

\* the text with "1" put after each of the ids, wherever one stands in an
\* instance reference or a Reference property, in one pass over the text
RECURSIVE Suffixed(_, _, _)
Suffixed(text, ids, i) ==
    IF i >= Len(text) THEN <<>>
    ELSE IF IdAt(text, ids, i) = {} THEN <<At(text, i)>> \o Suffixed(text, ids, i + 1)
    ELSE LET r == CHOOSE r \in IdAt(text, ids, i) : TRUE
             n == IF MatchAt(text, RefInst(r), i) THEN Len(RefOpen) ELSE Len(PropOpen)
         IN  Slice(text, i, i + n) \o r \o <<"1">>
               \o Suffixed(text, ids, i + n + Len(r))

\* C11: fix_annotation_suffixes reports exactly the visible reference ids
\* that do not end in a digit, sorted and without duplicates; in the text it
\* returns each of them has "1" appended in its instance references and in
\* its Reference properties, and nothing else is changed: ids that end in a
\* digit and hidden ids stand as they stood.
C11_SuffixesAppended ==
    IsFixAnnotation =>
      LET before == call.content
          ids == Unannotated(before)
      IN  /\ {ret.fixed[k] : k \in 1..Len(ret.fixed)} = ids
          /\ \A k \in 1..(Len(ret.fixed) - 1) : StrLess(ret.fixed[k], ret.fixed[k + 1])
          /\ ret.text = Suffixed(before, ids, 0)
          /\ \A r \in ids :
                /\ Count(ret.text, RefInst(r)) = 0
                /\ Count(ret.text, RefProp(r)) = 0
          /\ \A r \in ReferenceIds(before) \ ids :
                /\ Count(ret.text, RefInst(r)) >= Count(before, RefInst(r))
                /\ Count(ret.text, RefProp(r)) >= Count(before, RefProp(r))
          /\ before = ExampleRefs =>
                ret.fixed = <<ExampleRefIds[1], ExampleRefIds[3]>>

\* B stands before A in the document, A has a Reference property and an
\* annotated namesake A1: both are reported, in sorted order
C11_Witness ==
    /\ IsFixAnnotation
    /\ ret.fixed = <<IdA, IdB>>
    /\ Contains(call.content, RefProp(IdA))
    /\ Find(call.content, RefInst(IdB)) < Find(call.content, RefInst(IdA))

(***************************************************************************)
(* SymbolLibrary                                                           *)
(***************************************************************************)
IsGet == call.op = "get"
IsParse == call.op = "_parse"

Qualified(name) == Contains(name, <<":">>)

\* the name without its namespace
ShortName(name) == IF Qualified(name) THEN after_colon(name) ELSE name

\* C12: a definition registered under "ns:name" or under "name" is returned
\* by get("ns:name") and by get("name") alike.  (Stated for a definition
\* that is the only one registered with its short name, and for lookups by
\* its own name, by its short name and, when it is registered unqualified,
\* by its name under any namespace.)
C12_LookupEitherForm ==
    IsGet =>
      \A n \in DOMAIN symbols :
        /\ \A m \in DOMAIN symbols \ {n} : ShortName(m) # ShortName(n)
        /\ \/ call.name = n
           \/ call.name = ShortName(n)
           \/ ~Qualified(n) /\ ShortName(call.name) = n
        => ret.value = symbols[n]

\* a name that ends in _<digits>_<digits>
HasUnitSuffix(name) ==
    \E k \in 1..Len(name) :
        /\ name[k] = "_"
        /\ k < Len(name)
        /\ \A d \in (k + 1)..Len(name) : IsDigit(name[d])
        /\ \E j \in 1..(k - 2) :
              /\ name[j] = "_"
              /\ \A d \in (j + 1)..(k - 1) : IsDigit(name[d])

\* the pins of a document in the order they stand in it
DocumentPins(text) ==
    LET at == {i \in 0..Len(text) : MatchAt(text, PinA, i) \/ MatchAt(text, PinB, i)}
        nth(k) == CHOOSE i \in at : Cardinality({j \in at : j < i}) = k - 1
    IN  [k \in 1..Cardinality(at) |->
            IF MatchAt(text, PinA, nth(k)) THEN PinDefA ELSE PinDefB]

\* the documents of one definition whose pins stand in its sub-symbols
NestedDocs(n) == {Document(<<TwoPinLayout(n)>>), Document(<<BothUnitsDef(n)>>)}

\* C13: no name that ends in _<int>_<int> gets an entry in the library; a
\* document of one top-level definition with nested sub-symbols _0_1 and
\* _1_1 parses into exactly one definition, under the top-level name, whose
\* pin list holds the pins of the sub-symbols in document order.
C13_SubSymbolsFolded ==
    IsParse =>
      /\ \A n \in DOMAIN symbols : ~HasUnitSuffix(n)
      /\ \A n \in DefNames :
            call.content \in NestedDocs(n) =>
              /\ DOMAIN symbols = {n}
              /\ symbols[n] = [name |-> n, pins |-> DocumentPins(call.content)]

\* the pin of _0_1 stands before the pin of _1_1 in Foo's pin list
C13_Witness ==
    /\ IsParse
    /\ call.content = Document(<<BothUnitsDef(NameFoo)>>)
    /\ symbols[NameFoo].pins = <<PinDefB, PinDefA>>

\* the shapes of a definition whose strings hold no parenthesis
PlainShapes(n) == DefShapes(n) \ {QuotedParenDef(n)}

\* C23: redefinition is last-write-wins: after parsing a document of two
\* top-level definitions with the same name, the library holds one record
\* for that name, and its pin list is the pin list of the later definition,
\* whatever pins, if any, the later definition declares.  (Stated for
\* definitions whose strings hold no parenthesis and an earlier definition
\* that declares pins.)
C23_LastWriteWins ==
    IsParse =>
      \A n \in DefNames :
      \A earlier \in PlainShapes(n) \ {NoPinsDef(n)}, later \in PlainShapes(n) :
        call.content = Document(<<earlier, later>>) =>
          /\ DOMAIN symbols = {n}
          /\ symbols[n] = [name |-> n, pins |-> DocumentPins(Document(<<later>>))]

\* the pins a definition, given as its lines, declares
DeclaredPins(def) == DocumentPins(Document(<<def>>))

\* C25: after _parse every pin belongs to exactly one definition, the
\* top-level definition whose balanced block holds its declaration.  For a
\* document of two top-level definitions with different names: the pin list
\* of the earlier holds its own pins and none of the later sibling's, and
\* the later sibling, when it declares pins, is registered under its own
\* name with its own pins, also when a quoted string inside the earlier
\* definition holds a parenthesis.
C25_PinsBelongToOneDefinition ==
    IsParse =>
      \A n \in DefNames, m \in DefNames : \A earlier \in DefShapes(n), later \in DefShapes(m) :
        (n # m /\ call.content = Document(<<earlier, later>>)) =>
          /\ DeclaredPins(earlier) # <<>> =>
                /\ n \in DOMAIN symbols
                /\ symbols[n].pins = DeclaredPins(earlier)
          /\ DeclaredPins(later) # <<>> =>
                /\ m \in DOMAIN symbols
                /\ symbols[m].pins = DeclaredPins(later)

(***************************************************************************)
(* SchematicBuilder                                                        *)
(***************************************************************************)
IsBuild == call.op = "build"

ConnectOps == {"connect_pin", "connect_pin_noconnect"}

Elements(s) == {s[k] : k \in 1..Len(s)}

\* the pin of the library's symbol Foo a connect call selects
SelectedPins(c) ==
    {p \in {PinDefA, PinDefB} :
        IF c.by_number THEN p.number = c.pin_name ELSE p.name = c.pin_name}

\* the absolute position of a pin of the placed instance ref
PinPosition(b, ref, pin) ==
    LET c == b.placed[ref]
        a == pin_abs(c.x, c.y, pin.x, pin.y, c.rotation, c.mirror_y)
    IN  <<a.x, a.y>>

LabelAt(b, p) == \E l \in Elements(b.labels) : l.at = p

\* a label at the position, or a wire from the position to a label
WiredAndLabeled(b, p) ==
    \/ LabelAt(b, p)
    \/ \E w \in Elements(b.wires) : w.pts[1] = p /\ LabelAt(b, w.pts[2])

NoConnectAt(b, p) == \E m \in Elements(b.no_connects) : m.at = p

\* a session of exactly: place one instance of the two-pin symbol, connect
\* one of its pins to a net, mark its other pin as not connected
CompletenessScenario ==
    /\ builder.symbol_lib # None
    /\ Len(hist) = 3
    /\ hist[1].op = "place"
    /\ hist[1].lib_id = NameFoo
    /\ {hist[2].op, hist[3].op} = ConnectOps
    /\ hist[2].ref = hist[1].ref
    /\ hist[3].ref = hist[1].ref
    /\ SelectedPins(hist[2]) # {}
    /\ SelectedPins(hist[3]) # {}
    /\ SelectedPins(hist[2]) # SelectedPins(hist[3])

\* C14: after placing one two-pin instance, connect_pin on one pin and
\* connect_pin_noconnect on the other, both pins are in a terminal state:
\* there is a label at (or wired to) the absolute position of the first, and
\* a no-connect marker at the absolute position of the second.
C14_BothPinsTerminal ==
    CompletenessScenario =>
      LET wired == IF hist[2].op = "connect_pin" THEN hist[2] ELSE hist[3]
          unused == IF hist[2].op = "connect_pin" THEN hist[3] ELSE hist[2]
      IN  /\ \A p \in SelectedPins(wired) :
                WiredAndLabeled(builder, PinPosition(builder, wired.ref, p))
          /\ \A p \in SelectedPins(unused) :
                NoConnectAt(builder, PinPosition(builder, unused.ref, p))
          /\ Len(builder.labels) = 1
          /\ Len(builder.no_connects) = 1

\* the instance is rotated and mirrored, and the label stands at the end of
\* a wire stub
C14_Witness ==
    /\ CompletenessScenario
    /\ hist[1].rotation = 90
    /\ hist[1].mirror_y
    /\ Len(builder.wires) = 1

\* the pins of the placed instances, with their absolute positions
PlacedPins(b) ==
    {<<ref, p>> \in (DOMAIN b.placed) \X {PinDefA, PinDefB} :
        b.placed[ref].lib_id = NameFoo}

\* C15: after any sequence of place, connect_pin and connect_pin_noconnect
\* calls, no pin of a placed instance carries both a net label and a
\* no-connect marker.
C15_OneTerminalState ==
    (\A k \in 1..Len(hist) : hist[k].op \in ConnectOps \cup {"place"}) =>
      \A rp \in PlacedPins(builder) :
        LET pos == PinPosition(builder, rp[1], rp[2])
        IN  ~(WiredAndLabeled(builder, pos) /\ NoConnectAt(builder, pos))

\* the lookups of a connect call miss: the instance id is unknown, or no
\* library is set, or the library does not have the definition, or the
\* definition does not have the pin
LookupMiss(b, c) ==
    \/ c.ref \notin DOMAIN b.placed
    \/ b.symbol_lib = None
    \/ /\ b.placed[c.ref].lib_id \notin DOMAIN b.symbol_lib
       /\ ShortName(b.placed[c.ref].lib_id) \notin DOMAIN b.symbol_lib
    \/ SelectedPins(c) = {}

\* C16: a connect_pin or connect_pin_noconnect call whose lookups miss
\* returns normally and leaves the builder as it was: components, placed
\* instances, wires, labels and no-connect markers are unchanged, and no
\* uuid is drawn.
C16_LookupMissNoOp ==
    [][(call'.op \in ConnectOps /\ hist' # hist /\ LookupMiss(builder, call'))
          => (builder' = builder /\ ret'.status = "ok")]_vars

\* a pin that R1's symbol does not have, after R1 was placed and connected
C16_Witness ==
    /\ call.op \in ConnectOps
    /\ builder.symbol_lib # None
    /\ call.ref \in DOMAIN builder.placed
    /\ builder.placed[call.ref].lib_id = NameFoo
    /\ SelectedPins(call) = {}
    /\ builder.labels # <<>>

\* the place of a kind of element in the document
Section(kind) ==
    CASE kind = "symbol" -> 1 [] kind = "wire" -> 2 [] kind = "label" -> 3
      [] kind = "no_connect" -> 4 [] kind = "text" -> 5

\* C17: build writes every element once, in the section order components,
\* wires, labels, no-connect markers, text annotations, whatever the order
\* of the calls; within a section the elements stand in call order.
C17_SectionOrder ==
    IsBuild =>
      /\ Len(ret.items) = builder.uuids - 1
      /\ {ret.items[k].uuid : k \in 1..Len(ret.items)} = 1..(builder.uuids - 1)
      /\ \A i \in 1..Len(ret.items) : \A j \in (i + 1)..Len(ret.items) :
            /\ Section(ret.items[i].kind) <= Section(ret.items[j].kind)
            /\ ret.items[i].kind = ret.items[j].kind
                  => ret.items[i].uuid < ret.items[j].uuid

\* an element of an earlier section was created after one of a later section
C17_Witness ==
    /\ IsBuild
    /\ \E i \in 1..Len(ret.items) : \E j \in (i + 1)..Len(ret.items) :
          ret.items[i].uuid > ret.items[j].uuid

OnGrid(p) == p[1] % GRID = 0 /\ p[2] % GRID = 0

\* the positions an element is written with
Positions(item) ==
    IF item.kind = "wire" THEN {item.pts[1], item.pts[2]}
    ELSE IF item.kind = "symbol" THEN {item.at} \cup Elements(item.property_at)
    ELSE {item.at}

\* C18: every position in the output of build is a multiple of the grid:
\* of every component, wire end, label, no-connect marker and text
\* annotation, whatever coordinates the calls were given.
C18_EveryPositionOnGrid ==
    IsBuild => \A k \in 1..Len(ret.items) : \A p \in Positions(ret.items[k]) : OnGrid(p)

\* the last place call for an instance id
LastPlace(ref) ==
    LET ks == {k \in 1..Len(hist) : hist[k].op = "place" /\ hist[k].ref = ref}
    IN  hist[CHOOSE k \in ks : \A m \in ks : k >= m]

\* the components of a list that carry an instance id
Carrying(items, ref) ==
    {k \in 1..Len(items) : items[k].kind = "symbol" /\ items[k].reference = ref}

\* C19: place with an id that is in use overwrites: the instance looked up
\* for the id is the one of the last place call, and the session holds, and
\* build writes, one instance for the id, the later one.
C19_ReusedIdOverwrites ==
    \A ref \in DOMAIN builder.placed :
        /\ builder.placed[ref].lib_id = LastPlace(ref).lib_id
        /\ builder.placed[ref].x = snap(LastPlace(ref).x)
        /\ builder.placed[ref].y = snap(LastPlace(ref).y)
        /\ builder.placed[ref].rotation = LastPlace(ref).rotation
        /\ \A k \in Carrying(builder.components, ref) :
              builder.components[k].uuid = builder.placed[ref].uuid
        /\ IsBuild =>
              \A k \in Carrying(ret.items, ref) :
                  ret.items[k].uuid = builder.placed[ref].uuid

(***************************************************************************)
(* run_erc                                                                 *)
(***************************************************************************)
IsRunErc == call.op = "run_erc"

\* the validator was not found, or it did not finish, or it left no report
\* that can be read
ValidatorUnavailable(env) ==
    \/ env.first = "TimeoutExpired"
    \/ env.first = "FileNotFoundError" /\ (~env.found \/ env.second # "ran")
    \/ "file" \in DOMAIN env.report

\* C20: whenever the validator is not found, times out, or leaves a missing
\* or malformed report, run_erc returns the unknown result: success false
\* and errors, warnings and total all -1; never errors = 0 or success true.
C20_UnavailableIsUnknown ==
    (IsRunErc /\ ValidatorUnavailable(call.env)) =>
      /\ ret.success = FALSE
      /\ ret.errors = -1
      /\ ret.warnings = -1
      /\ ret.total = -1

\* a connect_pin call on a pin that resolves: the step from before the call
\* to after it
ConnectsPin ==
    /\ call'.op = "connect_pin"
    /\ hist' # hist
    /\ ~LookupMiss(builder, call')
    /\ ret'.status = "ok"

\* the absolute position of the pin the call names, and its offset point
CalledPin == CHOOSE p \in SelectedPins(call') : TRUE
CalledPinPosition == PinPosition(builder, call'.ref, CalledPin)
OffsetPoint ==
    <<snap(CalledPinPosition[1] + call'.wire_dx),
      snap(CalledPinPosition[2] + call'.wire_dy)>>

\* the call added one label at p and left the other labels alone
OneLabelAt(p) ==
    /\ Len(builder'.labels) = Len(builder.labels) + 1
    /\ SubSeq(builder'.labels, 1, Len(builder.labels)) = builder.labels
    /\ builder'.labels[Len(builder'.labels)].at = p

\* the call added one wire from p to q and left the other wires alone
OneWire(p, q) ==
    /\ Len(builder'.wires) = Len(builder.wires) + 1
    /\ SubSeq(builder'.wires, 1, Len(builder.wires)) = builder.wires
    /\ builder'.wires[Len(builder'.wires)].pts = <<p, q>>

\* C21 as stated: connect_pin on a resolvable pin emits exactly one label;
\* with a non-zero wire offset it also emits exactly one wire from the pin's
\* absolute position to the quantized offset point and the label stands at
\* the offset point; with a zero offset it emits no wire and the label
\* stands at the pin's absolute position.
C21_WireForNonZeroOffset ==
    [][ConnectsPin =>
          IF call'.wire_dx # 0 \/ call'.wire_dy # 0
          THEN OneWire(CalledPinPosition, OffsetPoint) /\ OneLabelAt(OffsetPoint)
          ELSE builder'.wires = builder.wires /\ OneLabelAt(CalledPinPosition)]_vars

\* C21 amended: connect_pin on a resolvable pin emits exactly one label, at
\* the quantized offset point; it emits exactly one wire, from the pin's
\* absolute position to the quantized offset point, when that point differs
\* from the pin's position, and no wire when it does not (the offset is zero
\* or is quantized away), the label then standing at the pin's position.
C21_WireToDistinctOffsetPoint ==
    [][ConnectsPin =>
          /\ OneLabelAt(OffsetPoint)
          /\ IF OffsetPoint # CalledPinPosition
             THEN OneWire(CalledPinPosition, OffsetPoint)
             ELSE builder'.wires = builder.wires
          /\ (call'.wire_dx = 0 /\ call'.wire_dy = 0) => OffsetPoint = CalledPinPosition
          /\ builder'.components = builder.components
          /\ builder'.no_connects = builder.no_connects]_vars

\* a non-zero offset that is quantized away was given for a pin of the
\* rotated instance that already has a wire stub
C21_Witness ==
    /\ call.op = "connect_pin"
    /\ ret.status = "ok"
    /\ ~LookupMiss(builder, call)
    /\ call.wire_dx = 50
    /\ Len(builder.labels) = 2
    /\ Len(builder.wires) = 1
    /\ builder.placed[call.ref].rotation = 90

(***************************************************************************)
(* validate_and_fix_loop                                                   *)
(***************************************************************************)
IsLoop == call.op = "validate_and_fix_loop"

\* the validation runs and the fix_callback calls made so far
Runs == SelectSeq(hist, LAMBDA h : h.op = "run_erc")
Fixes == SelectSeq(hist, LAMBDA h : h.op = "fix_callback")

\* C22: validate_and_fix_loop, for every max_iterations >= 0 and every
\* sequence of validator results, makes at most max_iterations validation
\* runs and at most max_iterations fix_callback calls, makes no further run
\* or call once a run reports zero errors or fix_callback returns False,
\* and when it ends it has returned the result of the last validation run
\* performed.
C22_ReturnsLastResult ==
    IsLoop =>
      /\ Len(Runs) <= call.max_iterations
      /\ Len(Fixes) <= call.max_iterations
      /\ \A k \in 1..Len(hist) :
            \/ hist[k].op = "run_erc" /\ hist[k].result.errors = 0
            \/ hist[k].op = "fix_callback" /\ ~hist[k].returned
            => k = Len(hist) /\ frame.pc = "done"
      /\ frame.pc = "done" =>
            /\ ret.status = "ok"
            /\ Runs # <<>>
            /\ ret.value = Runs[Len(Runs)].result

=============================================================================
